---- MODULE Spec2Model ----
(***************************************************************************)
(* Model of the Valeon TTS Studio text pipeline: the text normalizer, the  *)
(* heading matcher, the preset ("valeon") and custom chunkers of           *)
(* lib/text, and the chunking part of the persisted configuration store.   *)
(*                                                                         *)
(* A JavaScript string is modelled as a sequence of one-character strings. *)
(* The absent value (null / undefined) of a string-valued expression is    *)
(* the sentinel Null, and an exception leaving a function is the sentinel  *)
(* Throw; neither is a sequence of single characters, so they can not be   *)
(* confused with a text.                                                   *)
(*                                                                         *)
(* The character limits 200 and 4096 of the source are scaled down to      *)
(* ScaledMin and ScaledMax so that texts longer than a limit stay within   *)
(* reach of exhaustive enumeration; every comparison against a limit is    *)
(* kept as the source writes it.                                           *)
(***************************************************************************)
EXTENDS Integers, Sequences, FiniteSets, TLC

----------------------------------------------------------------------------
(* Bounds of the model *)

\* stands for the literal 200 (lower clamp of targetChars / hardLimit)
ScaledMin == 2
\* stands for the literal 4096 (upper clamp, preset limit, section envelope)
ScaledMax == 4
\* longest text over the full alphabet
MaxTextLen == 4
\* longest text over the two-character alphabet (lines longer than a limit)
MaxLongLen == 7

\* longest raw text handed to normalizeText
MaxRawLen == 5
\* most chunkText calls in a row
MaxCalls == 3
\* longest whitespace-only text
MaxBlankLen == 3
\* longest line handed to the heading matcher
MaxLineLen == 3
MaxSentenceLen == 5

NL == "\n"
SP == " "

Alphabet == {"a", ".", SP, NL, "#"}
LongAlphabet == {"a", SP}

----------------------------------------------------------------------------
(* The chunkText calls made so far, oldest first: the arguments, the        *)
(* outcome, and the lastIndex the regex object compiled by the call was     *)
(* left with.                                                               *)

VARIABLE log

----------------------------------------------------------------------------
(* JavaScript string primitives *)

Null == <<"NULL">>
Throw == <<"THROW">>

IsWs(c) == c \in {SP, NL, "\t", "\r"}

RECURSIVE trimStart(_)
trimStart(s) ==
    IF s = <<>> THEN s
    ELSE IF IsWs(Head(s)) THEN trimStart(Tail(s)) ELSE s

RECURSIVE trimEnd(_)
trimEnd(s) ==
    IF s = <<>> THEN s
    ELSE IF IsWs(s[Len(s)]) THEN trimEnd(SubSeq(s, 1, Len(s) - 1)) ELSE s

trim(s) == trimEnd(trimStart(s))

\* text.slice(from, to) with 0-based, end-exclusive, non-negative indices
slice(s, from, to) ==
    SubSeq(s, from + 1, IF to > Len(s) THEN Len(s) ELSE to)

startsWith(s, p) ==
    Len(p) <= Len(s) /\ SubSeq(s, 1, Len(p)) = p

\* 0-based index of the last occurrence of character c, -1 when absent
lastIndexOf(s, c) ==
    LET hits == {i \in 1..Len(s) : s[i] = c}
    IN IF hits = {} THEN -1
       ELSE (CHOOSE i \in hits : \A j \in hits : j <= i) - 1

\* 1-based position of the first occurrence of c, 0 when absent
FirstPos(s, c) ==
    LET hits == {i \in 1..Len(s) : s[i] = c}
    IN IF hits = {} THEN 0
       ELSE CHOOSE i \in hits : \A j \in hits : i <= j

\* s.split(c) for a one-character separator
RECURSIVE split(_, _)
split(s, c) ==
    LET i == FirstPos(s, c)
    IN IF i = 0 THEN <<s>>
       ELSE <<SubSeq(s, 1, i - 1)>> \o split(SubSeq(s, i + 1, Len(s)), c)

\* parts.join(sep)
RECURSIVE join(_, _)
join(parts, sep) ==
    IF parts = <<>> THEN <<>>
    ELSE IF Len(parts) = 1 THEN parts[1]
    ELSE parts[1] \o sep \o join(Tail(parts), sep)

\* parts.filter(Boolean): drops the empty strings
RECURSIVE filterBoolean(_)
filterBoolean(parts) ==
    IF parts = <<>> THEN <<>>
    ELSE IF Head(parts) = <<>> THEN filterBoolean(Tail(parts))
    ELSE <<Head(parts)>> \o filterBoolean(Tail(parts))

\* parts.map(trim)
mapTrim(parts) == [i \in 1..Len(parts) |-> trim(parts[i])]

\* end (1-based, inclusive) of the maximal run of characters satisfying
\* the set cs that starts at position i
RECURSIVE RunEnd(_, _, _)
RunEnd(s, i, cs) ==
    IF i < Len(s) /\ s[i + 1] \in cs THEN RunEnd(s, i + 1, cs) ELSE i

\* variant: the pattern without its + quantifier, taken two blanks at a time
RECURSIVE collapseBlanksPairs(_)
collapseBlanksPairs(s) ==
    IF s = <<>> THEN s
    ELSE IF Len(s) >= 2 /\ s[1] \in {SP, "\t"} /\ s[2] \in {SP, "\t"}
         THEN <<SP>> \o collapseBlanksPairs(SubSeq(s, 3, Len(s)))
         ELSE <<Head(s)>> \o collapseBlanksPairs(Tail(s))

\* s.replace(/[ \t]+/g, " ")
RECURSIVE collapseBlanks(_)
collapseBlanks(s) ==
    IF s = <<>> THEN s
    ELSE IF Head(s) \in {SP, "\t"}
         THEN <<SP>> \o collapseBlanks(SubSeq(s, RunEnd(s, 1, {SP, "\t"}) + 1, Len(s)))
         ELSE <<Head(s)>> \o collapseBlanks(Tail(s))

\* s.replace(/\r\n/g, "\n").replace(/\r/g, "\n")
RECURSIVE unifyNewlines(_)
unifyNewlines(s) ==
    IF s = <<>> THEN s
    ELSE IF Head(s) = "\r"
         THEN IF Len(s) >= 2 /\ s[2] = NL
              THEN <<NL>> \o unifyNewlines(SubSeq(s, 3, Len(s)))
              ELSE <<NL>> \o unifyNewlines(Tail(s))
         ELSE <<Head(s)>> \o unifyNewlines(Tail(s))

----------------------------------------------------------------------------
(* Text normalizer *)

normalizeLine(line) == trim(collapseBlanks(line))

normalizeText(input) ==
    LET cleaned == unifyNewlines(input)
        lines == split(cleaned, NL)
    IN trim(join([i \in 1..Len(lines) |-> normalizeLine(lines[i])], <<NL>>))

----------------------------------------------------------------------------
(* Sentence splitter *)

Punctuation == {".", "!", "?"}

\* variant: only the full stop ends a sentence
FirstSentenceEndFullStopOnly(s) ==
    LET hits == {i \in 1..(Len(s) - 1) : s[i] = "." /\ IsWs(s[i + 1])}
    IN IF hits = {} THEN 0
       ELSE CHOOSE i \in hits : \A j \in hits : i <= j

\* 1-based position of the first punctuation character that is directly
\* followed by whitespace, 0 when there is none
FirstSentenceEnd(s) ==
    LET hits == {i \in 1..(Len(s) - 1) : s[i] \in Punctuation /\ IsWs(s[i + 1])}
    IN IF hits = {} THEN 0
       ELSE CHOOSE i \in hits : \A j \in hits : i <= j

\* text.split(/([.!?])\s+/): body, punctuation, body, punctuation, ..., body
RECURSIVE splitSentenceParts(_)
splitSentenceParts(s) ==
    LET i == FirstSentenceEnd(s)
    IN IF i = 0 THEN <<s>>
       ELSE LET e == RunEnd(s, i + 1, {SP, NL, "\t", "\r"})
            IN <<SubSeq(s, 1, i - 1), <<s[i]>>>>
                 \o splitSentenceParts(SubSeq(s, e + 1, Len(s)))

\* variant: the split pattern without its capture group, the punctuation
\* is not handed back
RECURSIVE splitSentencesFromNoPunctuation(_, _)
splitSentencesFromNoPunctuation(parts, index) ==
    IF index > Len(parts) THEN <<>>
    ELSE LET sentence == trim(parts[index])
         IN (IF sentence # <<>> THEN <<sentence>> ELSE <<>>)
              \o splitSentencesFromNoPunctuation(parts, index + 2)

RECURSIVE splitSentencesFrom(_, _)
splitSentencesFrom(parts, index) ==
    IF index > Len(parts) THEN <<>>
    ELSE LET body == parts[index]
             punctuation == IF index + 1 <= Len(parts) THEN parts[index + 1] ELSE <<>>
             sentence == trim(body \o punctuation)
         IN (IF sentence # <<>> THEN <<sentence>> ELSE <<>>)
              \o splitSentencesFrom(parts, index + 2)

splitSentences(text) == splitSentencesFrom(splitSentenceParts(text), 1)

----------------------------------------------------------------------------
(* Heading matcher *)

\* the deepest Markdown heading level written into the token rule
HeadingMaxLevel == 6

\* Patterns of the model for which `new RegExp(pattern)` succeeds, and the
\* flag characters the constructor accepts.
PatternA == <<"a">>
PatternRun == <<"a", "+">>
PatternGroup == <<"(", "a", ")", "b">>
PatternNamed == <<"(", "?", "<", "t", "e", "x", "t", ">", "a", ")", "b">>
CompilablePatterns == {PatternA, PatternRun, PatternGroup, PatternNamed}
RegExpFlagChars == {"d", "g", "i", "m", "s", "u", "v", "y"}

\* does `new RegExp(pattern, flags)` return (TRUE) or throw a SyntaxError
RegExpCompiles(pattern, flags) ==
    /\ pattern \in CompilablePatterns
    /\ \A i \in 1..Len(flags) : flags[i] \in RegExpFlagChars
    /\ \A i, j \in 1..Len(flags) : i # j => flags[i] # flags[j]
    /\ ~ ("u" \in {flags[i] : i \in 1..Len(flags)} /\ "v" \in {flags[i] : i \in 1..Len(flags)})

HasFlag(flags, c) == \E i \in 1..Len(flags) : flags[i] = c

NoMatcher == [kind |-> "null", pattern |-> <<>>, flags |-> <<>>, tokens |-> <<>>, lastIndex |-> 0]

\* variant: the compiled regex is kept from one chunkText call to the next
RegexMatcherKept(pattern, flags) ==
    [kind |-> "regex", pattern |-> pattern, flags |-> flags, tokens |-> <<>>,
     lastIndex |-> IF log = <<>> THEN 0 ELSE log[Len(log)].lastIndex]

\* new RegExp(pattern, flags): a regex object starts with lastIndex 0
RegexMatcher(pattern, flags) ==
    [kind |-> "regex", pattern |-> pattern, flags |-> flags, tokens |-> <<>>, lastIndex |-> 0]

TokenMatcher(tokens) ==
    [kind |-> "tokens", pattern |-> <<>>, flags |-> <<>>, tokens |-> tokens, lastIndex |-> 0]

\* variant: a regex that does not compile is reported without an error
parseRegexDelimiterErrorDrop(pattern, flags) ==
    IF RegExpCompiles(pattern, flags)
    THEN [matcher |-> RegexMatcher(pattern, flags), error |-> "null"]
    ELSE [matcher |-> NoMatcher, error |-> "null"]

\* the slash branch of parseHeadingMatcher: new RegExp in try / catch
parseRegexDelimiter(pattern, flags) ==
    IF RegExpCompiles(pattern, flags)
    THEN [matcher |-> RegexMatcher(pattern, flags), error |-> "null"]
    ELSE [matcher |-> NoMatcher, error |-> "Invalid regex delimiter."]

\* the token branch of parseHeadingMatcher
parseTokenDelimiter(tokens) ==
    IF tokens = <<>> THEN [matcher |-> NoMatcher, error |-> "null"]
    ELSE [matcher |-> TokenMatcher(tokens), error |-> "null"]

\* parseHeadingMatcher after `const trimmed = input.trim()`, with
\* lastSlash = trimmed.lastIndexOf("/")
parseTrimmedDelimiter(trimmed, lastSlash) ==
    IF trimmed = <<>> THEN [matcher |-> NoMatcher, error |-> "null"]
    ELSE IF startsWith(trimmed, <<"/">>) /\ lastSlash > 0
    THEN parseRegexDelimiter(slice(trimmed, 1, lastSlash),
                             slice(trimmed, lastSlash + 1, Len(trimmed)))
    ELSE parseTokenDelimiter(filterBoolean(mapTrim(split(trimmed, ","))))

parseHeadingMatcher(input) ==
    parseTrimmedDelimiter(trim(input), lastIndexOf(trim(input), "/"))

\* number of leading '#' characters of a line
RECURSIVE LeadingHashes(_)
LeadingHashes(line) ==
    IF line # <<>> /\ Head(line) = "#" THEN 1 + LeadingHashes(Tail(line)) ELSE 0

\* variant of the '#' rule without the upper end of the quantifier
hashRuleMatchUnbounded(line, level) ==
    IF level > HeadingMaxLevel THEN Throw
    ELSE LET h == LeadingHashes(line)
         IN IF h >= level /\ h < Len(line) /\ IsWs(line[h + 1])
            THEN LET e == RunEnd(line, h + 1, {SP, NL, "\t", "\r"})
                 IN IF e < Len(line) THEN SubSeq(line, e + 1, Len(line))
                    ELSE IF e > h + 1 THEN <<line[e]>>
                    ELSE Null
            ELSE Null

\* line.match(new RegExp(`^#{level,6}\s+(.+)$`)): capture group 1, or Null
\* when the line does not match, or Throw when the constructor rejects the
\* quantifier {level,6} because level > 6 (numbers out of order).
hashRuleMatch(line, level) ==
    IF level > HeadingMaxLevel THEN Throw
    ELSE LET h == LeadingHashes(line)
         IN IF h >= level /\ h <= HeadingMaxLevel /\ h < Len(line) /\ IsWs(line[h + 1])
            THEN LET e == RunEnd(line, h + 1, {SP, NL, "\t", "\r"})
                 IN IF e < Len(line) THEN SubSeq(line, e + 1, Len(line))
                    ELSE IF e > h + 1 THEN <<line[e]>>
                    ELSE Null
            ELSE Null

IsHashToken(token) == token # <<>> /\ \A i \in 1..Len(token) : token[i] = "#"

\* `match?.[1]?.trim() ?? null` of the '#' rule
trimGroup(group) == IF group \in {Null, Throw} THEN group ELSE trim(group)

\* `remainder ? remainder : null`
orNull(remainder) == IF remainder = <<>> THEN Null ELSE remainder

\* matchTokenHeading after `const normalized = token.trim()`
matchNormalizedToken(line, normalized) ==
    IF normalized = <<>> THEN Null
    ELSE IF IsHashToken(normalized) THEN trimGroup(hashRuleMatch(line, Len(normalized)))
    ELSE IF ~ startsWith(line, normalized) THEN Null
    ELSE orNull(trim(SubSeq(line, Len(normalized) + 1, Len(line))))

matchTokenHeading(line, token) == matchNormalizedToken(line, trim(token))

\* the token loop of matchHeadingLine: the first truthy text wins
RECURSIVE matchTokens(_, _)
\* one turn of the loop, text = matchTokenHeading(line, Head(tokens))
matchTokensStep(line, tokens, text) ==
    IF text = Throw THEN Throw
    ELSE IF text # Null /\ text # <<>> THEN text
    ELSE matchTokens(line, Tail(tokens))

matchTokens(line, tokens) ==
    IF tokens = <<>> THEN Null
    ELSE matchTokensStep(line, tokens, matchTokenHeading(line, Head(tokens)))

\* The regex engine for the patterns of the model.  Length of the match of
\* the pattern that starts at the 0-based position pos of the line, -1 when
\* there is none: a, a+ (a greedy run), (a)b and (?<text>a)b.
MatchLenAt(pattern, line, pos) ==
    IF pos >= Len(line) \/ line[pos + 1] # "a" THEN -1
    ELSE IF pattern = PatternA THEN 1
    ELSE IF pattern = PatternRun THEN RunEnd(line, pos + 1, {"a"}) - pos
    ELSE IF pos + 2 <= Len(line) /\ line[pos + 2] = "b" THEN 2
    ELSE -1

\* capture group 1 and the named group `text` of a match (Null: undefined)
GroupOne(pattern) == IF pattern \in {PatternGroup, PatternNamed} THEN <<"a">> ELSE Null
GroupText(pattern) == IF pattern = PatternNamed THEN <<"a">> ELSE Null

\* 0-based index of the first match at or after `from`, -1 when none
IndexOfMatch(pattern, line, from) ==
    LET hits == {i \in from..(Len(line) - 1) : MatchLenAt(pattern, line, i) > 0}
    IN IF hits = {} THEN -1
       ELSE CHOOSE i \in hits : \A j \in hits : i <= j

\* where one exec step finds its match: a sticky regex looks at `from` only
execAt(pattern, line, from, sticky) ==
    IF from > Len(line) THEN -1
    ELSE IF sticky THEN (IF MatchLenAt(pattern, line, from) > 0 THEN from ELSE -1)
    ELSE IndexOfMatch(pattern, line, from)

wholeAt(pattern, line, at) == SubSeq(line, at + 1, at + MatchLenAt(pattern, line, at))

IsGlobal(regex) == HasFlag(regex.flags, "g")
IsSticky(regex) == HasFlag(regex.flags, "y")

\* match() with the g flag: every match from index 0 on, whole matches only
RECURSIVE allMatches(_, _, _, _)
allMatchesAt(pattern, line, sticky, at) ==
    IF at < 0 THEN <<>>
    ELSE <<wholeAt(pattern, line, at)>>
           \o allMatches(pattern, line, at + MatchLenAt(pattern, line, at), sticky)

allMatches(pattern, line, from, sticky) ==
    allMatchesAt(pattern, line, sticky, execAt(pattern, line, from, sticky))

\* The value of trimmed.match(regex) as matchHeadingLine reads it: m0 is
\* match[0], m1 is match[1], text is match.groups?.text (Null: undefined),
\* lastIndex is what the regex object is left with.
NoMatch(lastIndex) ==
    [matched |-> FALSE, m0 |-> Null, m1 |-> Null, text |-> Null, lastIndex |-> lastIndex]

\* with the g flag the array holds the whole matches, it has no groups
\* object, and lastIndex ends at 0
globalResult(matches) ==
    IF matches = <<>> THEN NoMatch(0)
    ELSE [matched |-> TRUE, m0 |-> matches[1],
          m1 |-> IF Len(matches) >= 2 THEN matches[2] ELSE Null,
          text |-> Null, lastIndex |-> 0]

\* without the g flag: the first match with its groups; only a sticky regex
\* reads and writes lastIndex
execResult(pattern, line, sticky, at, lastIndex) ==
    IF at < 0 THEN NoMatch(IF sticky THEN 0 ELSE lastIndex)
    ELSE [matched |-> TRUE, m0 |-> wholeAt(pattern, line, at),
          m1 |-> GroupOne(pattern), text |-> GroupText(pattern),
          lastIndex |-> IF sticky THEN at + MatchLenAt(pattern, line, at) ELSE lastIndex]

\* line.match(regex)
regexMatch(line, regex) ==
    IF IsGlobal(regex)
    THEN globalResult(allMatches(regex.pattern, line, 0, IsSticky(regex)))
    ELSE execResult(regex.pattern, line, IsSticky(regex),
                    execAt(regex.pattern, line,
                           IF IsSticky(regex) THEN regex.lastIndex ELSE 0, IsSticky(regex)),
                    regex.lastIndex)

\* the regex branch of matchHeadingLine, match = trimmed.match(matcher)
regexHeading(match, matcher) ==
    [text |-> IF ~ match.matched THEN Null
              ELSE IF match.text # Null /\ match.text # <<>> THEN trim(match.text)
              ELSE IF match.m1 # Null /\ match.m1 # <<>> THEN trim(match.m1)
              ELSE trim(match.m0),
     matcher |-> [matcher EXCEPT !.lastIndex = match.lastIndex]]

\* matchHeadingLine after `const trimmed = line.trim()`
matchTrimmedLine(trimmed, matcher) ==
    IF trimmed = <<>> THEN [text |-> Null, matcher |-> matcher]
    ELSE IF matcher.kind = "regex" THEN regexHeading(regexMatch(trimmed, matcher), matcher)
    ELSE [text |-> matchTokens(trimmed, matcher.tokens), matcher |-> matcher]

\* matchHeadingLine: the heading text (Null when the line is no heading,
\* Throw when a token rule throws) and the matcher as the call leaves it
matchHeadingLine(line, matcher) ==
    IF matcher.kind = "null" THEN [text |-> Null, matcher |-> matcher]
    ELSE matchTrimmedLine(trim(line), matcher)

\* `if (headingText)`: a heading text that is neither null nor empty
Truthy(text) == text # Null /\ text # Throw /\ text # <<>>

getHeadingMatcherInfo(input) ==
    LET parsed == parseHeadingMatcher(input)
    IN [kind |-> parsed.matcher.kind, error |-> parsed.error,
        pattern |-> parsed.matcher.pattern, tokens |-> parsed.matcher.tokens]

getHeadingMatch(line, input) ==
    matchHeadingLine(line, parseHeadingMatcher(input).matcher).text

----------------------------------------------------------------------------
(* Segment builder and sections *)

\* flushParagraph: the segments after the buffered lines were flushed
flushParagraph(segments, paragraphLines) ==
    LET paragraph == trim(join(paragraphLines, <<SP>>))
    IN IF paragraph # <<>>
       THEN Append(segments, [block |-> "body", text |-> paragraph])
       ELSE segments

RECURSIVE buildSegmentsLoop(_, _, _, _, _)
\* a non-blank line of the loop, m = matchHeadingLine(trimmed, matcher)
buildSegmentsLine(lines, i, segments, paragraphLines, trimmed, m) ==
    IF Truthy(m.text)
    THEN buildSegmentsLoop(lines, i + 1,
           Append(flushParagraph(segments, paragraphLines),
                  [block |-> "heading", text |-> m.text]),
           <<>>, m.matcher)
    ELSE buildSegmentsLoop(lines, i + 1, segments, Append(paragraphLines, trimmed), m.matcher)

\* variant: a blank line leaves the buffered lines where they are
buildSegmentsTrimmedNoFlush(lines, i, segments, paragraphLines, matcher, trimmed) ==
    IF trimmed = <<>>
    THEN buildSegmentsLoop(lines, i + 1, segments, paragraphLines, matcher)
    ELSE buildSegmentsLine(lines, i, segments, paragraphLines, trimmed,
                           matchHeadingLine(trimmed, matcher))

\* one line of the loop after `const trimmed = line.trim()`
buildSegmentsTrimmed(lines, i, segments, paragraphLines, matcher, trimmed) ==
    IF trimmed = <<>>
    THEN buildSegmentsLoop(lines, i + 1, flushParagraph(segments, paragraphLines),
                           <<>>, matcher)
    ELSE buildSegmentsLine(lines, i, segments, paragraphLines, trimmed,
                           matchHeadingLine(trimmed, matcher))

buildSegmentsLoop(lines, i, segments, paragraphLines, matcher) ==
    IF i > Len(lines) THEN flushParagraph(segments, paragraphLines)
    ELSE buildSegmentsTrimmed(lines, i, segments, paragraphLines, matcher, trim(lines[i]))

\* the fallback of buildSegmentsFromText when the loop produced nothing
segmentsOrWholeText(segments, text) ==
    IF segments = <<>> /\ trim(text) # <<>>
    THEN <<[block |-> "body", text |-> trim(text)]>>
    ELSE segments

buildSegmentsFromText(text, headingDelimiter) ==
    segmentsOrWholeText(
        buildSegmentsLoop(split(text, NL), 1, <<>>, <<>>,
                          parseHeadingMatcher(headingDelimiter).matcher),
        text)

renderTranscript(segments) ==
    trim(join([i \in 1..Len(segments) |-> segments[i].text], <<NL, NL>>))

\* variant: a heading segment is filed as a paragraph of the open section
RECURSIVE buildSectionsLoopHeadingAsParagraph(_, _, _)
buildSectionsLoopHeadingAsParagraph(segments, i, sections) ==
    IF i > Len(segments) THEN sections
    ELSE LET ensured == IF sections = <<>>
                        THEN <<[heading |-> Null, paragraphs |-> <<>>]>>
                        ELSE sections
             text == trim(segments[i].text)
             n == Len(ensured)
         IN buildSectionsLoopHeadingAsParagraph(segments, i + 1,
              IF text # <<>>
              THEN [ensured EXCEPT ![n].paragraphs = Append(@, text)]
              ELSE ensured)

\* a section without heading carries heading = Null
RECURSIVE buildSectionsLoop(_, _, _)
buildSectionsLoop(segments, i, sections) ==
    IF i > Len(segments) THEN sections
    ELSE LET segment == segments[i]
         IN IF segment.block = "heading"
            THEN buildSectionsLoop(segments, i + 1,
                   Append(sections, [heading |-> trim(segment.text), paragraphs |-> <<>>]))
            ELSE LET ensured == IF sections = <<>>
                                THEN <<[heading |-> Null, paragraphs |-> <<>>]>>
                                ELSE sections
                     text == trim(segment.text)
                     n == Len(ensured)
                 IN buildSectionsLoop(segments, i + 1,
                      IF text # <<>>
                      THEN [ensured EXCEPT ![n].paragraphs = Append(@, text)]
                      ELSE ensured)

\* `if (!sections.length)`: an empty result becomes one empty section
sectionsOrEmpty(sections) ==
    IF sections = <<>> THEN <<[heading |-> Null, paragraphs |-> <<>>]>> ELSE sections

buildSections(segments) == sectionsOrEmpty(buildSectionsLoop(segments, 1, <<>>))

----------------------------------------------------------------------------
(* Oversized-unit splitters *)

\* variant: the slices are pushed untrimmed
RECURSIVE splitArbitrarilyLoopNoTrim(_, _, _)
splitArbitrarilyLoopNoTrim(text, maxChars, start) ==
    IF start < Len(text)
    THEN <<slice(text, start, start + maxChars)>>
           \o splitArbitrarilyLoopNoTrim(text, maxChars, start + maxChars)
    ELSE <<>>

\* the while loop of splitArbitrarily from position start (maxChars >= 1)
RECURSIVE splitArbitrarilyLoop(_, _, _)
splitArbitrarilyLoop(text, maxChars, start) ==
    IF start < Len(text)
    THEN <<trim(slice(text, start, start + maxChars))>>
           \o splitArbitrarilyLoop(text, maxChars, start + maxChars)
    ELSE <<>>

splitArbitrarily(text, maxChars) ==
    filterBoolean(splitArbitrarilyLoop(text, maxChars, 0))

RECURSIVE splitLongParagraphLoop(_, _, _, _, _)
splitLongParagraphLoop(sentences, i, parts, current, maxChars) ==
    IF i > Len(sentences)
    THEN IF trim(current) # <<>> THEN Append(parts, trim(current)) ELSE parts
    ELSE LET chunk == trim(sentences[i])
         IN IF chunk = <<>>
            THEN splitLongParagraphLoop(sentences, i + 1, parts, current, maxChars)
            ELSE IF Len(chunk) > maxChars
            THEN splitLongParagraphLoop(sentences, i + 1,
                   (IF current # <<>> THEN Append(parts, trim(current)) ELSE parts)
                     \o splitArbitrarily(chunk, maxChars),
                   <<>>, maxChars)
            ELSE IF current = <<>>
            THEN splitLongParagraphLoop(sentences, i + 1, parts, chunk, maxChars)
            ELSE IF Len(current) + 1 + Len(chunk) <= maxChars
            THEN splitLongParagraphLoop(sentences, i + 1, parts,
                                        current \o <<SP>> \o chunk, maxChars)
            ELSE splitLongParagraphLoop(sentences, i + 1,
                                        Append(parts, trim(current)), chunk, maxChars)

\* `parts.length ? parts : splitArbitrarily(text, maxChars)`
partsOrArbitrary(parts, text, maxChars) ==
    IF parts # <<>> THEN parts ELSE splitArbitrarily(text, maxChars)

\* variant: an oversized paragraph is cut down to its first maxChars characters
splitLongParagraphTruncated(text, maxChars) == <<trim(slice(text, 0, maxChars))>>

splitLongParagraph(text, maxChars) ==
    partsOrArbitrary(splitLongParagraphLoop(splitSentences(text), 1, <<>>, <<>>, maxChars),
                     text, maxChars)

\* flush of chunkParagraphs: the chunks after the buffer was flushed
flushBuffer(chunks, buffer) ==
    IF trim(buffer) = <<>> THEN chunks ELSE Append(chunks, trim(buffer))

\* variant: the fit test leaves the two characters of the separator out
RECURSIVE chunkParagraphsLoopNoSeparator(_, _, _, _, _)
chunkParagraphsLoopNoSeparator(paragraphs, i, chunks, buffer, maxChars) ==
    IF i > Len(paragraphs) THEN flushBuffer(chunks, buffer)
    ELSE LET text == trim(paragraphs[i])
         IN IF text = <<>>
            THEN chunkParagraphsLoopNoSeparator(paragraphs, i + 1, chunks, buffer, maxChars)
            ELSE IF Len(text) > maxChars
            THEN chunkParagraphsLoopNoSeparator(paragraphs, i + 1,
                   flushBuffer(chunks, buffer) \o splitLongParagraph(text, maxChars),
                   <<>>, maxChars)
            ELSE IF buffer = <<>>
            THEN chunkParagraphsLoopNoSeparator(paragraphs, i + 1, chunks, text, maxChars)
            ELSE IF Len(buffer) + Len(text) <= maxChars
            THEN chunkParagraphsLoopNoSeparator(paragraphs, i + 1, chunks,
                                                buffer \o <<NL, NL>> \o text, maxChars)
            ELSE chunkParagraphsLoopNoSeparator(paragraphs, i + 1,
                                                flushBuffer(chunks, buffer), text, maxChars)

RECURSIVE chunkParagraphsLoop(_, _, _, _, _)
chunkParagraphsLoop(paragraphs, i, chunks, buffer, maxChars) ==
    IF i > Len(paragraphs) THEN flushBuffer(chunks, buffer)
    ELSE LET text == trim(paragraphs[i])
         IN IF text = <<>>
            THEN chunkParagraphsLoop(paragraphs, i + 1, chunks, buffer, maxChars)
            ELSE IF Len(text) > maxChars
            THEN chunkParagraphsLoop(paragraphs, i + 1,
                   flushBuffer(chunks, buffer) \o splitLongParagraph(text, maxChars),
                   <<>>, maxChars)
            ELSE IF buffer = <<>>
            THEN chunkParagraphsLoop(paragraphs, i + 1, chunks, text, maxChars)
            ELSE IF Len(buffer) + 2 + Len(text) <= maxChars
            THEN chunkParagraphsLoop(paragraphs, i + 1, chunks,
                                     buffer \o <<NL, NL>> \o text, maxChars)
            ELSE chunkParagraphsLoop(paragraphs, i + 1,
                                     flushBuffer(chunks, buffer), text, maxChars)

chunkParagraphs(paragraphs, maxChars) ==
    chunkParagraphsLoop(paragraphs, 1, <<>>, <<>>, maxChars)

----------------------------------------------------------------------------
(* Preset ("valeon") chunker *)

\* VALEON_SECTION_CHAR_LIMIT = 4096, scaled
VALEON_SECTION_CHAR_LIMIT == ScaledMax

\* VALEON_CHUNKING_PRESET, its two limits of 4096 scaled
VALEON_CHUNKING_PRESET ==
    [targetChars |-> ScaledMax, hardLimit |-> ScaledMax,
     splitOnParagraphs |-> TRUE, splitOnLines |-> FALSE, splitOnSentences |-> TRUE,
     headingDelimiter |-> <<"#">>]

RECURSIVE SumSegmentLengths(_)
SumSegmentLengths(segments) ==
    IF segments = <<>> THEN 0
    ELSE Len(Head(segments).text) + SumSegmentLengths(Tail(segments))

\* the section loop of chunkValeonText
RECURSIVE chunkSectionsLoop(_, _, _, _)
\* variant of chunkSection that tests the envelope alone
chunkSectionEnvelopeOnly(sections, i, withHeading, sectionText, maxChars) ==
    IF sections[i].paragraphs = <<>> \/ sectionText = <<>>
    THEN chunkSectionsLoop(sections, i + 1, withHeading, maxChars)
    ELSE IF Len(sectionText) <= VALEON_SECTION_CHAR_LIMIT
    THEN chunkSectionsLoop(sections, i + 1, Append(withHeading, sectionText), maxChars)
    ELSE chunkSectionsLoop(sections, i + 1,
           withHeading \o chunkParagraphs(sections[i].paragraphs, maxChars), maxChars)

\* one section of the loop: withHeading are the chunks after the heading
\* was pushed, sectionText = section.paragraphs.join("\n\n").trim()
chunkSection(sections, i, withHeading, sectionText, maxChars) ==
    IF sections[i].paragraphs = <<>> \/ sectionText = <<>>
    THEN chunkSectionsLoop(sections, i + 1, withHeading, maxChars)
    ELSE IF Len(sectionText) <= VALEON_SECTION_CHAR_LIMIT /\ Len(sectionText) <= maxChars
    THEN chunkSectionsLoop(sections, i + 1, Append(withHeading, sectionText), maxChars)
    ELSE chunkSectionsLoop(sections, i + 1,
           withHeading \o chunkParagraphs(sections[i].paragraphs, maxChars), maxChars)

chunkSectionsLoop(sections, i, chunks, maxChars) ==
    IF i > Len(sections) THEN chunks
    ELSE chunkSection(sections, i,
           IF sections[i].heading # Null /\ sections[i].heading # <<>>
           THEN Append(chunks, sections[i].heading)
           ELSE chunks,
           trim(join(sections[i].paragraphs, <<NL, NL>>)), maxChars)

\* variant: the transcript is the sole chunk whatever its length
chunkTranscriptWhole(transcript, maxChars) ==
    IF transcript = <<>> THEN <<>> ELSE <<transcript>>

\* the short-text branch of chunkValeonText, transcript = renderTranscript(segments)
chunkTranscript(transcript, maxChars) ==
    IF transcript = <<>> THEN <<>>
    ELSE IF Len(transcript) <= maxChars THEN <<transcript>>
    ELSE splitLongParagraph(transcript, maxChars)

\* chunkValeonText after `const segments = buildSegmentsFromText(...)`
chunkValeonSegments(segments, maxChars) ==
    IF segments = <<>> THEN <<>>
    ELSE IF /\ ~ \E i \in 1..Len(segments) :
                    segments[i].block = "heading" /\ trim(segments[i].text) # <<>>
            /\ SumSegmentLengths(segments) <= VALEON_SECTION_CHAR_LIMIT
    THEN chunkTranscript(renderTranscript(segments), maxChars)
    ELSE chunkSectionsLoop(buildSections(segments), 1, <<>>, maxChars)

chunkValeonText(text, maxChars, headingDelimiter) ==
    chunkValeonSegments(buildSegmentsFromText(text, headingDelimiter), maxChars)

----------------------------------------------------------------------------
(* Custom rule chunker *)

\* 1-based position of the first of two consecutive newlines, 0 when none
FirstBlankLine(s) ==
    LET hits == {i \in 1..(Len(s) - 1) : s[i] = NL /\ s[i + 1] = NL}
    IN IF hits = {} THEN 0
       ELSE CHOOSE i \in hits : \A j \in hits : i <= j

\* unit.split(/\n{2,}/)
RECURSIVE splitParagraphs(_)
splitParagraphs(s) ==
    LET i == FirstBlankLine(s)
    IN IF i = 0 THEN <<s>>
       ELSE <<SubSeq(s, 1, i - 1)>>
              \o splitParagraphs(SubSeq(s, RunEnd(s, i, {NL}) + 1, Len(s)))

\* units.flatMap(f) for the three split stages
RECURSIVE flatMapParagraphs(_)
flatMapParagraphs(units) ==
    IF units = <<>> THEN <<>>
    ELSE splitParagraphs(Head(units)) \o flatMapParagraphs(Tail(units))

RECURSIVE flatMapLines(_)
flatMapLines(units) ==
    IF units = <<>> THEN <<>>
    ELSE split(Head(units), NL) \o flatMapLines(Tail(units))

RECURSIVE flatMapSentences(_)
flatMapSentences(units) ==
    IF units = <<>> THEN <<>>
    ELSE splitSentences(Head(units)) \o flatMapSentences(Tail(units))

\* one stage of splitUnits: `if (rules.splitOn...) units = units.flatMap(...)`
paragraphStage(units, on) == IF on THEN flatMapParagraphs(units) ELSE units
lineStage(units, on) == IF on THEN flatMapLines(units) ELSE units
sentenceStage(units, on) == IF on THEN flatMapSentences(units) ELSE units

splitUnits(text, rules) ==
    filterBoolean(mapTrim(
        sentenceStage(lineStage(paragraphStage(<<text>>, rules.splitOnParagraphs),
                                rules.splitOnLines),
                      rules.splitOnSentences)))

\* The for loop of splitByLength adds limit to index until index reaches
\* text.length: with limit <= 0 and a non-empty text it never gets there.
splitByLengthDiverges(text, limit) == limit <= 0 /\ 0 < Len(text)

RECURSIVE splitByLengthLoop(_, _, _)
splitByLengthLoop(text, limit, index) ==
    IF index < Len(text)
    THEN <<slice(text, index, index + limit)>> \o splitByLengthLoop(text, limit, index + limit)
    ELSE <<>>

\* variant: only the slices of full length are kept
splitByLengthFullSlices(text, limit) ==
    splitByLengthLoop(SubSeq(text, 1, Len(text) - (Len(text) % limit)), limit, 0)

\* defined where the loop terminates
splitByLength(text, limit) == splitByLengthLoop(text, limit, 0)

Min(a, b) == IF a <= b THEN a ELSE b
Max(a, b) == IF a >= b THEN a ELSE b

\* flush of chunkByRules
flushCurrent(chunks, current) ==
    IF trim(current) # <<>> THEN Append(chunks, trim(current)) ELSE chunks

RECURSIVE chunkByRulesLoop(_, _, _, _, _, _)
chunkByRulesLoop(units, i, chunks, current, targetChars, hardLimit) ==
    IF i > Len(units) THEN flushCurrent(chunks, current)
    ELSE LET unit == units[i]
         IN IF Len(unit) > hardLimit
            THEN chunkByRulesLoop(units, i + 1,
                   flushCurrent(chunks, current)
                     \o filterBoolean(mapTrim(splitByLength(unit, hardLimit))),
                   <<>>, targetChars, hardLimit)
            ELSE LET separator == IF current # <<>> THEN <<SP>> ELSE <<>>
                 IN IF Len(current) + Len(separator) + Len(unit) <= targetChars
                    THEN chunkByRulesLoop(units, i + 1, chunks,
                                          current \o separator \o unit, targetChars, hardLimit)
                    ELSE chunkByRulesLoop(units, i + 1, flushCurrent(chunks, current),
                                          unit, targetChars, hardLimit)

\* is there a unit over the hard limit whose splitByLength never returns
unitsDiverge(units, hardLimit) ==
    \E i \in 1..Len(units) :
       Len(units[i]) > hardLimit /\ splitByLengthDiverges(units[i], hardLimit)

\* does chunkByRules reach a call of splitByLength that never returns
chunkByRulesDiverges(text, rules) == unitsDiverge(splitUnits(text, rules), rules.hardLimit)

\* variant: the target is not capped by the hard limit
chunkByRulesTargetUncapped(text, rules) ==
    chunkByRulesLoop(splitUnits(text, rules), 1, <<>>, <<>>,
                     rules.targetChars, rules.hardLimit)

\* defined where chunkByRules returns
chunkByRules(text, rules) ==
    chunkByRulesLoop(splitUnits(text, rules), 1, <<>>, <<>>,
                     Min(rules.targetChars, rules.hardLimit), rules.hardLimit)

\* flush of splitByHeadings: the sections after the buffered body lines
\* were pushed (heading = Null marks a section without heading)
flushBody(sections, bodyLines) ==
    IF bodyLines # <<>>
    THEN Append(sections, [heading |-> Null, body |-> join(bodyLines, <<NL>>)])
    ELSE sections

RECURSIVE splitByHeadingsLoop(_, _, _, _, _)
\* one line of the loop, m = matchHeadingLine(line, matcher)
splitByHeadingsLine(lines, i, sections, bodyLines, m) ==
    IF Truthy(m.text)
    THEN splitByHeadingsLoop(lines, i + 1,
           Append(flushBody(sections, bodyLines), [heading |-> m.text, body |-> <<>>]),
           <<>>, m.matcher)
    ELSE splitByHeadingsLoop(lines, i + 1, sections, Append(bodyLines, lines[i]), m.matcher)

splitByHeadingsLoop(lines, i, sections, bodyLines, matcher) ==
    IF i > Len(lines) THEN flushBody(sections, bodyLines)
    ELSE splitByHeadingsLine(lines, i, sections, bodyLines,
                             matchHeadingLine(lines[i], matcher))

\* `sections.length ? sections : [{ body: text }]`
sectionsOrWholeText(sections, text) ==
    IF sections = <<>> THEN <<[heading |-> Null, body |-> text]>> ELSE sections

\* splitByHeadings after `const { matcher } = parseHeadingMatcher(...)`
splitByMatcher(text, matcher) ==
    IF matcher.kind = "null" THEN <<[heading |-> Null, body |-> text]>>
    ELSE sectionsOrWholeText(splitByHeadingsLoop(split(text, NL), 1, <<>>, <<>>, matcher),
                             text)

splitByHeadings(text, headingDelimiter) ==
    splitByMatcher(text, parseHeadingMatcher(headingDelimiter).matcher)

----------------------------------------------------------------------------
(* chunkText *)

\* Does a heading rule throw on some line of the text?  buildSegmentsFromText
\* and splitByHeadings hand every non-blank line to matchHeadingLine, and an
\* exception of the token rule leaves chunkText uncaught.
headingMatchThrows(text, headingDelimiter) ==
    LET matcher == parseHeadingMatcher(headingDelimiter).matcher
        lines == split(text, NL)
    IN \E i \in 1..Len(lines) : matchHeadingLine(lines[i], matcher).text = Throw

\* the section loop of the custom branch
RECURSIVE chunkCustomSections(_, _, _, _)
chunkCustomSections(sections, i, chunks, ruleSet) ==
    IF i > Len(sections) THEN chunks
    ELSE LET section == sections[i]
             withHeading == IF section.heading # Null /\ section.heading # <<>>
                            THEN Append(chunks, trim(section.heading))
                            ELSE chunks
         IN chunkCustomSections(sections, i + 1,
              IF trim(section.body) # <<>>
              THEN withHeading \o chunkByRules(section.body, ruleSet)
              ELSE withHeading,
              ruleSet)

\* does the rule chunker diverge on the body of some section
sectionsDiverge(sections, config) ==
    \E i \in 1..Len(sections) :
       trim(sections[i].body) # <<>> /\ chunkByRulesDiverges(sections[i].body, config)

customDiverges(text, config) ==
    IF trim(config.headingDelimiter) # <<>>
    THEN sectionsDiverge(splitByHeadings(text, config.headingDelimiter), config)
    ELSE chunkByRulesDiverges(text, config)

\* variant: preset mode reads the limit from the config
chunkTextConfigLimit(text, config) ==
    IF trim(text) = <<>> THEN [kind |-> "ok", chunks |-> <<>>]
    ELSE IF config.mode = "valeon"
    THEN IF headingMatchThrows(text, config.headingDelimiter)
         THEN [kind |-> "throw", chunks |-> <<>>]
         ELSE [kind |-> "ok",
               chunks |-> chunkValeonText(text, config.hardLimit, config.headingDelimiter)]
    ELSE IF trim(config.headingDelimiter) # <<>>
         THEN IF headingMatchThrows(text, config.headingDelimiter)
              THEN [kind |-> "throw", chunks |-> <<>>]
              ELSE IF customDiverges(text, config)
              THEN [kind |-> "diverge", chunks |-> <<>>]
              ELSE [kind |-> "ok",
                    chunks |-> filterBoolean(chunkCustomSections(
                                 splitByHeadings(text, config.headingDelimiter), 1, <<>>,
                                 config))]
         ELSE IF chunkByRulesDiverges(text, config)
              THEN [kind |-> "diverge", chunks |-> <<>>]
              ELSE [kind |-> "ok", chunks |-> chunkByRules(text, config)]

\* The outcome of chunkText(text, config): kind "ok" with the chunks it
\* returns, kind "throw" when an exception leaves it, kind "diverge" when
\* it never returns.
chunkText(text, config) ==
    IF trim(text) = <<>> THEN [kind |-> "ok", chunks |-> <<>>]
    ELSE IF config.mode = "valeon"
    THEN LET headingDelimiter == IF config.headingDelimiter # Null
                                 THEN config.headingDelimiter
                                 ELSE VALEON_CHUNKING_PRESET.headingDelimiter
         IN IF headingMatchThrows(text, headingDelimiter)
            THEN [kind |-> "throw", chunks |-> <<>>]
            ELSE [kind |-> "ok",
                  chunks |-> chunkValeonText(text, VALEON_CHUNKING_PRESET.hardLimit,
                                             headingDelimiter)]
    ELSE LET headingDelimiter == IF config.headingDelimiter # Null
                                 THEN config.headingDelimiter ELSE <<>>
         IN IF trim(headingDelimiter) # <<>>
            THEN IF headingMatchThrows(text, headingDelimiter)
                 THEN [kind |-> "throw", chunks |-> <<>>]
                 ELSE IF customDiverges(text, config)
                 THEN [kind |-> "diverge", chunks |-> <<>>]
                 ELSE [kind |-> "ok",
                       chunks |-> filterBoolean(chunkCustomSections(
                                    splitByHeadings(text, headingDelimiter), 1, <<>>, config))]
            ELSE IF chunkByRulesDiverges(text, config)
                 THEN [kind |-> "diverge", chunks |-> <<>>]
                 ELSE [kind |-> "ok", chunks |-> chunkByRules(text, config)]

----------------------------------------------------------------------------
(* getTextStats *)

\* trimmed.split(/\s+/).filter(Boolean).length: the number of maximal runs
\* of non-whitespace characters
RECURSIVE CountWords(_)
CountWords(s) ==
    IF s = <<>> THEN 0
    ELSE IF IsWs(Head(s)) THEN CountWords(Tail(s))
    ELSE IF Len(s) = 1 \/ IsWs(s[2]) THEN 1 + CountWords(Tail(s))
    ELSE CountWords(Tail(s))

\* minutes = words / 155 is kept as the fraction num / den
ZeroStats ==
    [characters |-> 0, words |-> 0, chunks |-> 0, minutes |-> [num |-> 0, den |-> 1]]

\* variant: the emptiness test reads the untrimmed text
statsOfTrimmedUntrimmedTest(t, trimmed, chunks) ==
    IF t = <<>> THEN ZeroStats
    ELSE [characters |-> Len(trimmed), words |-> CountWords(trimmed),
          chunks |-> Len(chunks),
          minutes |-> [num |-> CountWords(trimmed), den |-> 155]]

\* getTextStats after `const trimmed = text.trim()`
statsOfTrimmed(t, trimmed, chunks) ==
    IF trimmed = <<>> THEN ZeroStats
    ELSE [characters |-> Len(trimmed), words |-> CountWords(trimmed),
          chunks |-> Len(chunks),
          minutes |-> [num |-> CountWords(trimmed), den |-> 155]]

getTextStats(t, chunks) == statsOfTrimmed(t, trim(t), chunks)

----------------------------------------------------------------------------
(* Configuration store (chunking part) *)

CHUNKING_MODES == <<"valeon", "custom">>

\* the characters of a mode name, as a JSON document spells it
ModeChars(mode) ==
    IF mode = "valeon" THEN <<"v", "a", "l", "e", "o", "n">>
    ELSE <<"c", "u", "s", "t", "o", "m">>

\* defaultConfig.chunking
defaultChunking ==
    [mode |-> "valeon",
     targetChars |-> VALEON_CHUNKING_PRESET.targetChars,
     hardLimit |-> VALEON_CHUNKING_PRESET.hardLimit,
     splitOnParagraphs |-> VALEON_CHUNKING_PRESET.splitOnParagraphs,
     splitOnLines |-> VALEON_CHUNKING_PRESET.splitOnLines,
     splitOnSentences |-> VALEON_CHUNKING_PRESET.splitOnSentences,
     headingDelimiter |-> VALEON_CHUNKING_PRESET.headingDelimiter]

\* A value of type unknown: a finite number, a non-finite number, a string,
\* a boolean, or anything else (undefined, null, object, array).
JsonNumber(n) == [type |-> "number", num |-> n, str |-> <<>>, bool |-> FALSE]
JsonNonFinite == [type |-> "nonfinite", num |-> 0, str |-> <<>>, bool |-> FALSE]
JsonString(s) == [type |-> "string", num |-> 0, str |-> s, bool |-> FALSE]
JsonBoolean(b) == [type |-> "boolean", num |-> 0, str |-> <<>>, bool |-> b]
JsonOther == [type |-> "other", num |-> 0, str |-> <<>>, bool |-> FALSE]

\* variant: clamped from below only
clampNumberNoMax(value, fallback, min, max) ==
    IF value.type # "number" THEN fallback
    ELSE Max(value.num, min)

clampNumber(value, fallback, min, max) ==
    IF value.type # "number" THEN fallback
    ELSE Min(Max(value.num, min), max)

coerceString(value, fallback) ==
    IF value.type = "string" THEN value.str ELSE fallback

coerceBoolean(value, fallback) ==
    IF value.type = "boolean" THEN value.bool ELSE fallback

isEnumValue(value, options) ==
    value.type = "string" /\ \E i \in 1..Len(options) : ModeChars(options[i]) = value.str

coerceEnum(value, options, fallback) ==
    IF isEnumValue(value, options)
    THEN options[CHOOSE i \in 1..Len(options) : ModeChars(options[i]) = value.str]
    ELSE fallback

\* the record a non-object value is replaced by: every field undefined
EmptyRecord ==
    [isObject |-> TRUE, mode |-> JsonOther, targetChars |-> JsonOther,
     hardLimit |-> JsonOther, splitOnParagraphs |-> JsonOther,
     splitOnLines |-> JsonOther, splitOnSentences |-> JsonOther,
     headingDelimiter |-> JsonOther]

coerceChunking(value) ==
    LET record == IF value.isObject THEN value ELSE EmptyRecord
        targetChars == clampNumber(record.targetChars, defaultChunking.targetChars,
                                   ScaledMin, ScaledMax)
        hardLimit == clampNumber(record.hardLimit, defaultChunking.hardLimit,
                                 ScaledMin, ScaledMax)
    IN [mode |-> coerceEnum(record.mode, CHUNKING_MODES, defaultChunking.mode),
        targetChars |-> targetChars,
        hardLimit |-> Max(hardLimit, targetChars),
        splitOnParagraphs |-> coerceBoolean(record.splitOnParagraphs,
                                            defaultChunking.splitOnParagraphs),
        splitOnLines |-> coerceBoolean(record.splitOnLines, defaultChunking.splitOnLines),
        splitOnSentences |-> coerceBoolean(record.splitOnSentences,
                                           defaultChunking.splitOnSentences),
        headingDelimiter |-> coerceString(record.headingDelimiter,
                                          defaultChunking.headingDelimiter)]

\* the chunking part of coerceConfig(value)
coerceConfig(value) ==
    IF ~ value.isObject THEN defaultChunking
    ELSE coerceChunking(value.chunking)

----------------------------------------------------------------------------
(* Inputs of the chunker model *)

RECURSIVE SeqsOfLen(_, _)
SeqsOfLen(S, n) ==
    IF n = 0 THEN {<<>>}
    ELSE {Append(s, c) : s \in SeqsOfLen(S, n - 1), c \in S}

SeqsUpTo(S, n) == UNION {SeqsOfLen(S, k) : k \in 0..n}

\* App.tsx hands chunkText the output of normalizeText only
IsNormalized(t) == normalizeText(t) = t

\* texts with more structure than the exhaustive sets reach: a heading with
\* a paragraph after a blank line ("# Title\n\nHello world."), two headings
\* with bodies, paragraphs of several sentences, a long first paragraph
StructuredTexts ==
    {<<"#", SP, "a", NL, NL, "a", SP, "a", ".">>,
     <<"a", ".", NL, "#", SP, "a", NL, "a", NL, "#", "#", SP, "a", NL, "a", ".">>,
     <<"a", ".", SP, "a", ".", NL, NL, "a", "a", ".", SP, "a">>,
     <<"a", "a", "a", SP, "a", "a", NL, NL, "a", NL, NL, "a">>,
     <<"#", SP, "a", "a", "a", SP, "a", "a", NL, "a", ".", SP, "a", "a", "a", "a", "a", ".">>}

Texts ==
    {t \in SeqsUpTo(Alphabet, MaxTextLen) : IsNormalized(t)}
      \cup {t \in SeqsUpTo(LongAlphabet, MaxLongLen) : IsNormalized(t) /\ Len(t) > MaxTextLen}
      \cup StructuredTexts

\* heading delimiters: none, the default, a literal prefix, two tokens, a
\* '#' token deeper than level 6, a regex that does not compile, a regex, a
\* sticky regex
DelimEmpty == <<>>
DelimHash == <<"#">>
DelimLiteral == <<"a">>
DelimTwoTokens == <<"#", "#", ",", SP, ".">>
DelimDeepHash == <<"#", "#", "#", "#", "#", "#", "#">>
DelimBadRegex == <<"/", "[", "/">>
DelimRegex == <<"/", "a", "/">>
DelimStickyRegex == <<"/", "a", "/", "y">>

Delimiters ==
    {DelimEmpty, DelimHash, DelimLiteral, DelimTwoTokens, DelimDeepHash,
     DelimBadRegex, DelimRegex, DelimStickyRegex}

Modes == {"valeon", "custom"}

\* configs within the range the chunker is told to assume
ValidConfigs ==
    [mode : Modes,
     targetChars : {ScaledMin, ScaledMax},
     hardLimit : {ScaledMin, ScaledMax},
     splitOnParagraphs : BOOLEAN, splitOnLines : BOOLEAN, splitOnSentences : BOOLEAN,
     headingDelimiter : Delimiters]

----------------------------------------------------------------------------
(* State *)

VARIABLES
    text,      \* normalizedText
    config,    \* config.chunking of the store
    result,    \* outcome of the last chunkText(text, config)
    pc,        \* "call" before, "returned" after the call
    input,     \* arguments of a library function about to be applied
    output,    \* what the function returned
    synth      \* the synthesis run of the page

vars == <<text, config, result, pc, input, output, log, synth>>

NoResult == [kind |-> "none", chunks |-> <<>>]

\* values of the parts of the state a specification does not use
NoInput == [fn |-> "none"]
NoOutput == <<"NONE">>
NoRun == [phase |-> "none"]

libraryVars == <<input, output>>
chunkerVars == <<text, config, result>>

LibraryIdle == input = NoInput /\ output = NoOutput
CallsIdle == log = <<>>
SynthIdle == synth = NoRun

Init ==
    /\ text \in Texts
    /\ config \in {c \in ValidConfigs :
                     /\ c.targetChars <= c.hardLimit
                     /\ c.mode = "valeon" =>
                          /\ c.splitOnParagraphs = c.splitOnLines
                          /\ c.splitOnLines = c.splitOnSentences
                          /\ c.targetChars = c.hardLimit}
    /\ result = NoResult
    /\ pc = "call"
    /\ LibraryIdle /\ CallsIdle /\ SynthIdle

CallChunkText ==
    /\ pc = "call"
    /\ result' = chunkText(text, config)
    /\ pc' = "returned"
    /\ UNCHANGED <<text, config, input, output, log, synth>>

Next == CallChunkText

Spec == Init /\ [][Next]_vars

----------------------------------------------------------------------------
(* The store operations and the chunks derived from the stored config *)

\* numbers the Target chars / Hard limit inputs can deliver through
\* Number(event.target.value)
NumberInputs == (0 - 1)..(ScaledMax + 1)

\* delimiters typed into the heading delimiter input
TypedDelimiters == {DelimEmpty, DelimHash}

\* the input text of the store model
StoreTexts == {<<>>, <<"a", "a", SP, "a">>, <<"#", SP, "a", NL, "a", ".">>}

JsonNumbers == {JsonOther, JsonNonFinite} \cup {JsonNumber(n) : n \in NumberInputs}
JsonModes == {JsonOther, JsonString(<<"x">>), JsonString(ModeChars("valeon")),
              JsonString(ModeChars("custom"))}
JsonFlags == {JsonOther, JsonBoolean(TRUE), JsonBoolean(FALSE)}

\* values handed to hydrateConfig
HydrateValues ==
    {[isObject |-> FALSE, chunking |-> EmptyRecord],
     [isObject |-> TRUE, chunking |-> [EmptyRecord EXCEPT !.isObject = FALSE]]}
    \cup
    {[isObject |-> TRUE,
      chunking |-> [isObject |-> TRUE, mode |-> m, targetChars |-> t, hardLimit |-> h,
                    splitOnParagraphs |-> f, splitOnLines |-> f, splitOnSentences |-> f,
                    headingDelimiter |-> d]] :
       m \in JsonModes, t \in JsonNumbers, h \in JsonNumbers, f \in JsonFlags,
       d \in {JsonOther, JsonString(DelimEmpty)}}

StoreInit ==
    /\ text \in StoreTexts
    /\ config = defaultChunking
    /\ result = chunkText(text, defaultChunking)
    /\ pc = "rendered"
    /\ LibraryIdle /\ CallsIdle /\ SynthIdle

\* an event handler runs once the previous render has returned
CanHandleEvent == pc = "rendered" /\ result.kind = "ok"

setChunkingMode(mode) ==
    /\ CanHandleEvent
    /\ config' = [config EXCEPT !.mode = mode]
    /\ pc' = "stale"
    /\ UNCHANGED <<text, result, input, output, log, synth>>

\* updateChunking(partial): the partial record of one field, spread over
\* the stored chunking config
updateChunking(field, value) ==
    /\ CanHandleEvent
    /\ config' = [config EXCEPT ![field] = value]
    /\ pc' = "stale"
    /\ UNCHANGED <<text, result, input, output, log, synth>>

resetConfig ==
    /\ CanHandleEvent
    /\ config' = defaultChunking
    /\ pc' = "stale"
    /\ UNCHANGED <<text, result, input, output, log, synth>>

hydrateConfig(value) ==
    /\ CanHandleEvent
    /\ config' = coerceConfig(value)
    /\ pc' = "stale"
    /\ UNCHANGED <<text, result, input, output, log, synth>>

\* useMemo(() => chunkText(normalizedText, config.chunking))
Render ==
    /\ pc = "stale"
    /\ result' = chunkText(text, config)
    /\ pc' = "rendered"
    /\ UNCHANGED <<text, config, input, output, log, synth>>

\* the numeric inputs and the checkboxes are disabled in preset mode
UpdateNumber ==
    /\ config.mode = "custom"
    /\ \E field \in {"targetChars", "hardLimit"}, n \in NumberInputs :
          updateChunking(field, n)

UpdateFlag ==
    /\ config.mode = "custom"
    /\ \E field \in {"splitOnParagraphs", "splitOnLines", "splitOnSentences"},
          b \in BOOLEAN : updateChunking(field, b)

UpdateDelimiter ==
    \E d \in TypedDelimiters : updateChunking("headingDelimiter", d)

StoreNext ==
    \/ \E mode \in Modes : setChunkingMode(mode)
    \/ UpdateNumber
    \/ UpdateFlag
    \/ UpdateDelimiter
    \/ resetConfig
    \/ \E value \in HydrateValues : hydrateConfig(value)
    \/ Render

SpecStore == StoreInit /\ [][StoreNext]_vars

----------------------------------------------------------------------------
(* chunkText called several times in a row *)

\* the matcher as the line loop of buildSegmentsFromText / splitByHeadings
\* leaves it
RECURSIVE matcherAfterLines(_, _, _)
matcherAfterLines(lines, i, matcher) ==
    IF i > Len(lines) THEN matcher
    ELSE matcherAfterLines(lines, i + 1, matchHeadingLine(lines[i], matcher).matcher)

\* lastIndex of the regex object a chunkText call created, at its return
\* (0 when the call compiled none)
lastIndexAfterCall(t, c) ==
    IF trim(t) = <<>> \/ (c.mode = "custom" /\ trim(c.headingDelimiter) = <<>>) THEN 0
    ELSE matcherAfterLines(split(t, NL), 1,
                           parseHeadingMatcher(c.headingDelimiter).matcher).lastIndex

CallTexts ==
    {<<"a", SP, "a">>, <<"a", NL, "a", SP, "a">>}

CallConfigs ==
    {[defaultChunking EXCEPT !.mode = m, !.headingDelimiter = d] :
       m \in Modes, d \in {DelimHash, DelimRegex, DelimStickyRegex}}

CallsInit ==
    /\ text = <<>> /\ config = defaultChunking /\ result = NoResult
    /\ pc = "call"
    /\ log = <<>>
    /\ LibraryIdle /\ SynthIdle

\* one call chunkText(t, c) returning r, entered in the log
CallReturns(t, c, r) ==
    /\ text' = t /\ config' = c /\ result' = r
    /\ log' = Append(log, [text |-> t, config |-> c, result |-> r,
                           lastIndex |-> lastIndexAfterCall(t, c)])
    /\ pc' = "returned"
    /\ UNCHANGED <<input, output, synth>>

CallChunkTextAgain ==
    /\ Len(log) < MaxCalls
    /\ \E t \in CallTexts, c \in CallConfigs : CallReturns(t, c, chunkText(t, c))

CallsNext == CallChunkTextAgain

SpecCalls == CallsInit /\ [][CallsNext]_vars

----------------------------------------------------------------------------
(* chunkText and getTextStats on blank texts, under any config *)

BlankTexts == SeqsUpTo({SP, NL, "\t", "\r"}, MaxBlankLen)

\* configs as the store can hold them, in and out of range
AnyConfigs ==
    {[mode |-> m, targetChars |-> t, hardLimit |-> h,
      splitOnParagraphs |-> f, splitOnLines |-> f, splitOnSentences |-> f,
      headingDelimiter |-> d] :
       m \in Modes, t \in {0, ScaledMax}, h \in {0 - 1, 0, ScaledMax}, f \in BOOLEAN,
       d \in {DelimEmpty, DelimHash, DelimDeepHash, DelimBadRegex, DelimStickyRegex}}

\* chunk sequences handed to getTextStats
StatsChunks == {<<>>, <<<<"a">>>>, <<<<"a">>, <<"a", SP, "a">>>>}

BlankInit ==
    /\ text \in BlankTexts \cup {<<"a">>, <<SP, "a", SP, "a", NL>>}
    /\ config \in AnyConfigs
    /\ input \in {[fn |-> "getTextStats", chunks |-> cs] : cs \in StatsChunks}
    /\ result = NoResult /\ output = NoOutput
    /\ pc = "call"
    /\ CallsIdle /\ SynthIdle

ChunkAnyText ==
    /\ pc = "call"
    /\ result' = chunkText(text, config)
    /\ pc' = "chunked"
    /\ UNCHANGED <<text, config, input, output, log, synth>>

\* stats = getTextStats(normalizedText, chunks), once chunkText returned
CallGetTextStats ==
    /\ pc = "chunked" /\ result.kind = "ok"
    /\ output' = getTextStats(text, input.chunks)
    /\ pc' = "returned"
    /\ UNCHANGED <<text, config, result, input, log, synth>>

BlankNext == ChunkAnyText \/ CallGetTextStats

SpecBlank == BlankInit /\ [][BlankNext]_vars

----------------------------------------------------------------------------
(* The packers applied to paragraphs and to units *)

\* limits in and around the range of the store
LimitValues == {1, ScaledMin, ScaledMax, ScaledMax + 1}

\* one-line texts as buildSections and splitUnits hand them on: trimmed,
\* not empty, single blanks
UnitTexts ==
    {t \in SeqsUpTo(LongAlphabet, MaxLongLen) : t # <<>> /\ IsNormalized(t)}
      \cup {<<"a", ".", SP, "a", "a", "a", "a", "a">>,
             <<"a", "a", "a", "a", "a", ".", SP, "a", ".">>,
             <<"a", ".", SP, "a", ".", SP, "a", ".">>}

ParagraphLists ==
    SeqsUpTo(UnitTexts, 2)
      \cup SeqsOfLen({<<"a">>, <<"a", "a", "a", "a", "a", SP, "a">>}, 3)

ParagraphInputs ==
    {[fn |-> "chunkParagraphs", paragraphs |-> ps, maxChars |-> m] :
       ps \in ParagraphLists, m \in LimitValues}

RulesTexts ==
    UnitTexts \cup StructuredTexts
      \cup {<<"a", NL, NL, "a", NL, NL, "a">>,
             <<"a", NL, "a", "a", "a", "a", "a", NL, "a">>,
             <<"a", "a", NL, NL, "a", "a", "a", "a", "a", ".", SP, "a">>}

RuleSets ==
    [targetChars : LimitValues, hardLimit : LimitValues,
     splitOnParagraphs : BOOLEAN, splitOnLines : BOOLEAN, splitOnSentences : BOOLEAN]

RulesInputs ==
    {[fn |-> "chunkByRules", text |-> t, rules |-> r] : t \in RulesTexts, r \in RuleSets}

\* texts of sections: bodies of one or two paragraphs, alone, under a
\* heading, and before and after a heading
SectionParagraphs ==
    {<<"a">>, <<"a", "a">>, <<"a", "a", "a">>, <<"a", "a", "a", "a", "a">>,
     <<"a", ".", SP, "a">>}

SectionBodies ==
    {join(ps, <<NL, NL>>) : ps \in SeqsOfLen(SectionParagraphs, 1)
                                     \cup SeqsOfLen(SectionParagraphs, 2)}

ValeonTexts ==
    SectionBodies
      \cup {<<"#", SP, "a", NL, NL>> \o b : b \in SectionBodies}
      \cup {a \o <<NL, NL, "#", SP, "a", NL, NL>> \o b :
               a \in {<<"a">>, <<"a", "a", NL, NL, "a", "a">>}, b \in SectionBodies}
      \cup {<<"a", NL, "a">>, <<"a", ".", NL, "a">>, <<"a", "!", SP, "a", NL, NL, "a">>,
             <<"a", "a", "a", ".", SP, "a", ".", SP, "a", ".">>}

\* maxChars below, at and above the envelope
ValeonLimits == {ScaledMin, ScaledMax, ScaledMax + 2}

ValeonInputs ==
    {[fn |-> "chunkValeonText", text |-> t, maxChars |-> m, delimiter |-> d] :
       t \in ValeonTexts, m \in ValeonLimits, d \in {DelimHash, DelimEmpty}}

\* any text, trimmed or not, for the sentence splitter
SentenceTexts ==
    SeqsUpTo({"a", ".", "?", SP, NL}, MaxSentenceLen)
      \cup {<<"a", "!", SP, "a", ".", "a", SP, "a">>,
             <<"a", ".", ".", ".", SP, "a", "!", "?", NL, "a">>}

SentenceInputs == {[fn |-> "splitSentences", text |-> t] : t \in SentenceTexts}

\* normalized texts and every kind of delimiter for the segment builder
SegmentTexts ==
    Texts \cup {<<"a", NL, "a", NL, NL, "#", SP, "a", NL, "a", NL, "a", ".">>}

SegmentInputs ==
    {[fn |-> "buildSegmentsFromText", text |-> t, delimiter |-> d] :
       t \in SegmentTexts, d \in Delimiters}

PackersInit ==
    /\ input \in ParagraphInputs \cup RulesInputs \cup ValeonInputs \cup SentenceInputs
                   \cup SegmentInputs
    /\ output = NoOutput
    /\ pc = "call"
    /\ text = <<>> /\ config = defaultChunking /\ result = NoResult
    /\ CallsIdle /\ SynthIdle

CallChunkParagraphs ==
    /\ pc = "call" /\ input.fn = "chunkParagraphs"
    /\ output' = chunkParagraphs(input.paragraphs, input.maxChars)
    /\ pc' = "returned"
    /\ UNCHANGED <<text, config, result, input, log, synth>>

CallChunkByRules ==
    /\ pc = "call" /\ input.fn = "chunkByRules"
    /\ output' = chunkByRules(input.text, input.rules)
    /\ pc' = "returned"
    /\ UNCHANGED <<text, config, result, input, log, synth>>

CallChunkValeonText ==
    /\ pc = "call" /\ input.fn = "chunkValeonText"
    /\ output' = chunkValeonText(input.text, input.maxChars, input.delimiter)
    /\ pc' = "returned"
    /\ UNCHANGED <<text, config, result, input, log, synth>>

CallSplitSentences ==
    /\ pc = "call" /\ input.fn = "splitSentences"
    /\ output' = splitSentences(input.text)
    /\ pc' = "returned"
    /\ UNCHANGED <<text, config, result, input, log, synth>>

\* buildSegmentsFromText returns its segments, or an exception of
\* matchHeadingLine passes through it
CallBuildSegments ==
    /\ pc = "call" /\ input.fn = "buildSegmentsFromText"
    /\ output' = IF headingMatchThrows(input.text, input.delimiter)
                 THEN [kind |-> "throw", segments |-> <<>>]
                 ELSE [kind |-> "ok",
                       segments |-> buildSegmentsFromText(input.text, input.delimiter)]
    /\ pc' = "returned"
    /\ UNCHANGED <<text, config, result, input, log, synth>>

PackersNext ==
    \/ CallBuildSegments
    \/ CallChunkParagraphs
    \/ CallChunkByRules
    \/ CallChunkValeonText
    \/ CallSplitSentences

SpecPackers == PackersInit /\ [][PackersNext]_vars

----------------------------------------------------------------------------
(* One compiled matcher applied to lines, one after the other *)

\* the delimiter string /pattern/flags
RegexDelimiter(pattern, flags) == <<"/">> \o pattern \o <<"/">> \o flags

MatchDelimiters ==
    {DelimEmpty, DelimHash, DelimBadRegex}
      \cup {RegexDelimiter(p, f) :
               p \in CompilablePatterns, f \in {<<>>, <<"g">>, <<"y">>, <<"i">>}}

MatchLines == SeqsUpTo({"a", "b", SP}, MaxLineLen)

\* k '#' characters
Hashes(k) == [i \in 1..k |-> "#"]

\* lines of up to one '#' more than the deepest level, with no, one or two
\* blanks after them, and with or without text
HashLines ==
    {Hashes(k) \o ws \o t :
       k \in 0..(HeadingMaxLevel + 1),
       ws \in {<<>>, <<SP>>, <<SP, SP>>},
       t \in {<<>>, <<"a">>, <<"#">>, <<"a", SP, "#", "a">>}}

HashInputs ==
    {[fn |-> "matchHeadingLine", delimiter |-> Hashes(n), lines |-> <<l>>] :
       n \in 1..HeadingMaxLevel, l \in HashLines}

MatchInit ==
    /\ input \in {[fn |-> "matchHeadingLine", delimiter |-> d, lines |-> ls] :
                     d \in MatchDelimiters, ls \in SeqsUpTo(MatchLines, 2)}
                   \cup HashInputs
    /\ output = NoOutput
    /\ pc = "call"
    /\ text = <<>> /\ config = defaultChunking /\ result = NoResult
    /\ CallsIdle /\ SynthIdle

\* const { matcher } = parseHeadingMatcher(headingDelimiter)
CompileMatcher ==
    /\ pc = "call"
    /\ output' = [matcher |-> parseHeadingMatcher(input.delimiter).matcher, texts |-> <<>>]
    /\ pc' = "compiled"
    /\ UNCHANGED <<text, config, result, input, log, synth>>

\* the next line went through matchHeadingLine, m being what it returned
\* and left of the matcher
LineMatched(m) ==
    /\ output' = [matcher |-> m.matcher, texts |-> Append(output.texts, m.text)]
    /\ UNCHANGED <<text, config, result, pc, input, log, synth>>

MatchNextLine ==
    /\ pc = "compiled"
    /\ Len(output.texts) < Len(input.lines)
    /\ LineMatched(matchHeadingLine(input.lines[Len(output.texts) + 1], output.matcher))

MatchNext == CompileMatcher \/ MatchNextLine

SpecMatch == MatchInit /\ [][MatchNext]_vars

----------------------------------------------------------------------------
(* normalizeText applied to a raw text, and to its own output *)

RawAlphabet == {"a", SP, "\t", "\r", NL}

RawTexts == SeqsUpTo(RawAlphabet, MaxRawLen)

NormalizeInit ==
    /\ input \in {[fn |-> "normalizeText", text |-> raw] : raw \in RawTexts}
    /\ output = <<>>
    /\ pc = "call"
    /\ text = <<>> /\ config = defaultChunking /\ result = NoResult
    /\ CallsIdle /\ SynthIdle

\* normalizedText = normalizeText(rawText)
NormalizeRaw ==
    /\ pc = "call"
    /\ output' = <<normalizeText(input.text)>>
    /\ pc' = "once"
    /\ UNCHANGED <<text, config, result, input, log, synth>>

\* the normalized text goes through normalizeText once more
NormalizeAgain ==
    /\ pc = "once"
    /\ output' = Append(output, normalizeText(output[1]))
    /\ pc' = "twice"
    /\ UNCHANGED <<text, config, result, input, log, synth>>

NormalizeNext == NormalizeRaw \/ NormalizeAgain

SpecNormalize == NormalizeInit /\ [][NormalizeNext]_vars

----------------------------------------------------------------------------
(* Vocabulary of the properties *)

RECURSIVE Strip(_)
Strip(s) ==
    IF s = <<>> THEN <<>>
    ELSE IF IsWs(Head(s)) THEN Strip(Tail(s)) ELSE <<Head(s)>> \o Strip(Tail(s))

RECURSIVE Flatten(_)
Flatten(parts) ==
    IF parts = <<>> THEN <<>> ELSE Head(parts) \o Flatten(Tail(parts))

Returned == pc = "returned" /\ result.kind = "ok"

\* the heading text of every line (Null for a body line), as one matcher
\* compiled from the delimiter classifies the lines from first to last
RECURSIVE ClassifyLines(_, _, _)
ClassifyLines(lines, i, matcher) ==
    IF i > Len(lines) THEN <<>>
    ELSE LET m == matchHeadingLine(lines[i], matcher)
         IN <<IF Truthy(m.text) THEN m.text ELSE Null>>
              \o ClassifyLines(lines, i + 1, m.matcher)

\* the delimiter chunkText works with: in custom mode a blank delimiter
\* switches heading detection off
HeadingClasses(t, c) ==
    ClassifyLines(split(t, NL), 1, parseHeadingMatcher(c.headingDelimiter).matcher)

\* the text with every heading line replaced by its heading text
HeadingTextOnly(t, c) ==
    LET lines == split(t, NL)
        classes == HeadingClasses(t, c)
    IN join([i \in 1..Len(lines) |-> IF classes[i] # Null THEN classes[i] ELSE lines[i]],
            <<NL>>)

HasHeadingLine(t, c) ==
    \E i \in 1..Len(HeadingClasses(t, c)) : HeadingClasses(t, c)[i] # Null

\* C1 (as claimed): the chunks, concatenated and stripped of whitespace,
\* are the text stripped of whitespace, heading lines included.
C1_CoverageOfEveryCharacter ==
    Returned => Strip(Flatten(result.chunks)) = Strip(text)

\* C1 (amended): the chunks, concatenated and stripped of whitespace, are the
\* text stripped of whitespace in which every heading line is replaced by
\* its extracted heading text; without a heading line that is the text.
C1_CoverageUpToHeadingMarkers ==
    Returned => Strip(Flatten(result.chunks)) = Strip(HeadingTextOnly(text, config))

C1_Witness ==
    /\ Returned
    /\ Len(result.chunks) >= 2
    /\ HasHeadingLine(text, config)
    /\ Strip(Flatten(result.chunks)) # Strip(text)

\* C2: in custom mode with a config in range every chunk, heading chunks
\* included, is at most hardLimit characters long.
C2_CustomChunksWithinHardLimit ==
    (Returned /\ config.mode = "custom"
       /\ ScaledMin <= config.targetChars /\ config.targetChars <= config.hardLimit
       /\ config.hardLimit <= ScaledMax)
      => \A i \in 1..Len(result.chunks) : Len(result.chunks[i]) <= config.hardLimit

\* C3: in preset mode every chunk, heading chunks included, is at most
\* 4096 (scaled: ScaledMax) characters long.
C3_PresetChunksWithinLimit ==
    (Returned /\ config.mode = "valeon")
      => \A i \in 1..Len(result.chunks) : Len(result.chunks[i]) <= ScaledMax

\* C4: every chunk chunkText returns is non-empty and equals its own trim.
C4_NoEmptyChunk ==
    Returned => \A i \in 1..Len(result.chunks) :
                   result.chunks[i] # <<>> /\ trim(result.chunks[i]) = result.chunks[i]

C4_Witness ==
    /\ Returned
    /\ Len(result.chunks) >= 2
    /\ Len(Flatten(result.chunks)) < Len(text)
    /\ \E i \in 1..Len(result.chunks) : Len(result.chunks[i]) = ScaledMax

\* the lines of a text grouped in order: one group per heading line, one
\* group per maximal run of lines that are no heading
RECURSIVE LineGroups(_, _, _, _)
LineGroups(lines, classes, i, body) ==
    LET closed == IF body # <<>>
                  THEN <<[heading |-> Null, body |-> join(body, <<NL>>)]>> ELSE <<>>
    IN IF i > Len(lines) THEN closed
       ELSE IF classes[i] # Null
       THEN closed \o <<[heading |-> classes[i], body |-> <<>>]>>
              \o LineGroups(lines, classes, i + 1, <<>>)
       ELSE LineGroups(lines, classes, i + 1, Append(body, lines[i]))

\* the least k such that the first k chunks hold at least n non-whitespace
\* characters (Len(chunks) + 1 when they never do)
RECURSIVE ChunksFor(_, _, _)
ChunksFor(chunks, k, n) ==
    IF n <= 0 THEN k
    ELSE IF k >= Len(chunks) THEN Len(chunks) + 1
    ELSE ChunksFor(chunks, k + 1, n - Len(Strip(chunks[k + 1])))

\* the chunks match the groups one after the other: a heading group is one
\* chunk equal to the heading text, a body group is a run of chunks holding
\* exactly the non-whitespace characters of the body
RECURSIVE GroupsMatch(_, _)
GroupsMatch(groups, chunks) ==
    IF groups = <<>> THEN chunks = <<>>
    ELSE LET g == Head(groups)
         IN IF g.heading # Null
            THEN /\ chunks # <<>>
                 /\ Head(chunks) = g.heading
                 /\ GroupsMatch(Tail(groups), Tail(chunks))
            ELSE LET k == ChunksFor(chunks, 0, Len(Strip(g.body)))
                 IN /\ k <= Len(chunks)
                    /\ Strip(Flatten(SubSeq(chunks, 1, k))) = Strip(g.body)
                    /\ GroupsMatch(Tail(groups), SubSeq(chunks, k + 1, Len(chunks)))

\* C5: in preset mode and in custom mode with a non-blank delimiter every
\* heading line yields one chunk that is exactly its heading text, in line
\* order between the chunks of the body before it and of the body after it,
\* and no chunk mixes heading text with body text.
C5_HeadingIsolation ==
    (Returned /\ (config.mode = "valeon" \/ trim(config.headingDelimiter) # <<>>))
      => GroupsMatch(LineGroups(split(text, NL), HeadingClasses(text, config), 1, <<>>),
                     result.chunks)

\* the scenario "# Title\n\nHello world." over the alphabet of the model
C5_Witness ==
    /\ Returned
    /\ text = <<"#", SP, "a", NL, NL, "a", SP, "a", ".">>
    /\ config.headingDelimiter = DelimHash
    /\ config.hardLimit = ScaledMax
    /\ result.chunks = << <<"a">>, <<"a", SP, "a", ".">> >>

\* C6: chunkText terminates for every config the store can hold.
C6_ChunkTextTerminates ==
    result.kind # "diverge"

\* C7: chunkText and getHeadingMatch never throw, whatever the delimiter.
C7_NoThrow ==
    pc = "returned" =>
    /\ result.kind # "throw"
    /\ \A i \in 1..Len(split(text, NL)) :
          getHeadingMatch(split(text, NL)[i], config.headingDelimiter) # Throw

\* a delimiter of the form /pattern/flags that new RegExp rejects
IsMalformedRegex(d) ==
    LET trimmed == trim(d)
        lastSlash == lastIndexOf(trimmed, "/")
    IN /\ startsWith(trimmed, <<"/">>)
       /\ lastSlash > 0
       /\ ~ RegExpCompiles(slice(trimmed, 1, lastSlash),
                           slice(trimmed, lastSlash + 1, Len(trimmed)))

\* C8: a regex delimiter that does not compile gives a null matcher and the
\* error "Invalid regex delimiter.", and chunkText returns what it returns
\* for the same text and config with an empty delimiter.
C8_MalformedRegexDisablesHeadings ==
    IsMalformedRegex(config.headingDelimiter)
      => /\ parseHeadingMatcher(config.headingDelimiter)
              = [matcher |-> NoMatcher, error |-> "Invalid regex delimiter."]
         /\ getHeadingMatcherInfo(config.headingDelimiter).kind = "null"
         /\ pc = "returned"
              => result = chunkText(text, [config EXCEPT !.headingDelimiter = <<>>])

C8_Witness ==
    /\ Returned
    /\ IsMalformedRegex(config.headingDelimiter)
    /\ Len(result.chunks) >= 2

\* C9: the stored chunking config always has
\* 200 <= targetChars <= hardLimit <= 4096 (scaled: ScaledMin, ScaledMax).
C9_StoredConfigInRange ==
    /\ ScaledMin <= config.targetChars
    /\ config.targetChars <= config.hardLimit
    /\ config.hardLimit <= ScaledMax

\* configs in preset mode that keep the delimiter of c and differ from one
\* another in every other field
PresetVariants(c) ==
    {[defaultChunking EXCEPT !.headingDelimiter = c.headingDelimiter],
     [mode |-> "valeon", targetChars |-> ScaledMin, hardLimit |-> ScaledMin,
      splitOnParagraphs |-> FALSE, splitOnLines |-> TRUE, splitOnSentences |-> FALSE,
      headingDelimiter |-> c.headingDelimiter],
     [mode |-> "valeon", targetChars |-> ScaledMin, hardLimit |-> ScaledMax,
      splitOnParagraphs |-> TRUE, splitOnLines |-> TRUE, splitOnSentences |-> FALSE,
      headingDelimiter |-> c.headingDelimiter]}

\* C10: in preset mode the chunks depend on the text and the heading
\* delimiter only, and the limit applied is 4096 (scaled: ScaledMax).
C10_PresetOverride ==
    (pc = "returned" /\ config.mode = "valeon")
      => /\ \A c \in PresetVariants(config) : chunkText(text, c) = result
         /\ result.kind = "ok"
              => result.chunks = chunkValeonText(text, ScaledMax, config.headingDelimiter)

C10_Witness ==
    /\ Returned
    /\ config.mode = "valeon"
    /\ config.hardLimit < ScaledMax
    /\ ~ config.splitOnSentences
    /\ \E i \in 1..Len(result.chunks) : Len(result.chunks[i]) > config.hardLimit

\* C11: normalizeText is idempotent: normalizing the normalized form of any
\* raw text (any mix of \r\n, \r, \n, spaces, tabs, blank lines) returns it
\* unchanged.
C11_NormalizeIdempotent ==
    pc = "twice" => output[2] = output[1]

\* a raw text with a carriage return and a tab whose normal form has two
\* lines went through normalizeText twice
C11_Witness ==
    /\ pc = "twice"
    /\ \E i \in 1..Len(input.text) : input.text[i] = "\r"
    /\ \E i \in 1..Len(input.text) : input.text[i] = "\t"
    /\ \E i \in 1..Len(output[1]) : output[1][i] = NL
    /\ output[1] # input.text

C13_BlankTextGivesNothing ==
    trim(text) = <<>> =>
       /\ pc \in {"chunked", "returned"} => result = [kind |-> "ok", chunks |-> <<>>]
       /\ pc = "returned" => output = ZeroStats

\* a text of whitespace only went through chunkText under a config whose
\* hard limit is out of range, and through getTextStats with two chunks
C13_Witness ==
    /\ pc = "returned"
    /\ text # <<>> /\ trim(text) = <<>>
    /\ config.hardLimit <= 0 /\ config.mode = "custom"
    /\ Len(input.chunks) = 2
    /\ output = ZeroStats

\* The chunks split into three consecutive runs: one holding the units
\* before unit i, one of pieces no longer than the limit holding unit i,
\* one holding the units after it; "holding" is equality of the
\* non-whitespace characters, in order.
ReducedInPlace(units, i, chunks, limit) ==
    \E a \in 0..Len(chunks) : \E b \in (a + 1)..Len(chunks) :
       /\ Strip(Flatten(SubSeq(chunks, 1, a))) = Strip(Flatten(SubSeq(units, 1, i - 1)))
       /\ Strip(Flatten(SubSeq(chunks, a + 1, b))) = Strip(units[i])
       /\ \A k \in (a + 1)..b : Len(chunks[k]) <= limit
       /\ Strip(Flatten(SubSeq(chunks, b + 1, Len(chunks))))
            = Strip(Flatten(SubSeq(units, i + 1, Len(units))))

\* every unit longer than the limit is reduced in place
OversizedReduced(units, chunks, limit) ==
    \A i \in 1..Len(units) : Len(units[i]) > limit => ReducedInPlace(units, i, chunks, limit)

\* C14: an oversized unit is reduced, never dropped or truncated: the
\* pieces made for a paragraph (preset packer) or a unit (custom packer)
\* longer than the limit are each within the limit, hold its non-whitespace
\* characters once and in order, and come after the chunks of what was
\* buffered before it and before the chunks of what follows.
C14_OversizedUnitsReduced ==
    pc = "returned" =>
       /\ input.fn = "chunkParagraphs" =>
             OversizedReduced(input.paragraphs, output, input.maxChars)
       /\ input.fn = "chunkByRules" =>
             OversizedReduced(splitUnits(input.text, input.rules), output,
                              input.rules.hardLimit)

\* a short paragraph was buffered when a paragraph of two sentences, one of
\* them longer than the limit, came through the preset packer
C14_Witness ==
    /\ pc = "returned" /\ input.fn = "chunkParagraphs"
    /\ input.maxChars = ScaledMax
    /\ Len(input.paragraphs) = 2
    /\ input.paragraphs[1] = <<"a">>
    /\ input.paragraphs[2] = <<"a", ".", SP, "a", "a", "a", "a", "a">>
    /\ Len(output) >= 3

\* a unit longer than the hard limit came through the custom packer after
\* a unit that fits
C14_WitnessCustom ==
    /\ pc = "returned" /\ input.fn = "chunkByRules"
    /\ input.text = <<"a", NL, "a", "a", "a", "a", "a", NL, "a">>
    /\ input.rules.splitOnLines /\ input.rules.hardLimit = ScaledMin
    /\ Len(output) = 5

\* ceil(n / d) for positive d
CeilDiv(n, d) == (n + d - 1) \div d

\* the chunk lengths are h, ..., h, n - h * (k - 1) with k = ceil(n / h)
SlicedEvenly(chunks, n, h) ==
    /\ Len(chunks) = CeilDiv(n, h)
    /\ \A i \in 1..(Len(chunks) - 1) : Len(chunks[i]) = h
    /\ Len(chunks[Len(chunks)]) = n - h * (CeilDiv(n, h) - 1)

\* C15: fixed-size slicing: in custom mode with every split flag off, a
\* text without whitespace and without heading line, of n > hardLimit
\* characters, gives ceil(n / hardLimit) chunks, all of hardLimit
\* characters but the last, which has the remainder.
C15_FixedSizeSlicing ==
    (/\ Returned /\ config.mode = "custom"
     /\ ~ config.splitOnParagraphs /\ ~ config.splitOnLines /\ ~ config.splitOnSentences
     /\ Strip(text) = text /\ Len(text) > config.hardLimit
     /\ ~ HasHeadingLine(text, config))
       => SlicedEvenly(result.chunks, Len(text), config.hardLimit)

\* seven characters were sliced at hard limit ScaledMin, heading detection
\* being on, into three full chunks and a shorter last one
C15_Witness ==
    /\ Returned /\ config.mode = "custom"
    /\ ~ config.splitOnParagraphs /\ ~ config.splitOnLines /\ ~ config.splitOnSentences
    /\ text = <<"a", "a", "a", "a", "a", "a", "a">>
    /\ config.hardLimit = ScaledMin /\ config.headingDelimiter = DelimHash
    /\ Len(result.chunks) = 4 /\ Len(result.chunks[4]) = 1

\* From unit i and chunk k on, every chunk is a run of consecutive units
\* joined by single spaces; a run of two or more units is within the
\* target, and the unit after a run would not have fitted into it.
RECURSIVE PackedFrom(_, _, _, _, _)
PackedFrom(units, i, chunks, k, target) ==
    IF i > Len(units) THEN k = Len(chunks) + 1
    ELSE /\ k <= Len(chunks)
         /\ \E n \in 1..(Len(units) - i + 1) :
               /\ chunks[k] = join(SubSeq(units, i, i + n - 1), <<SP>>)
               /\ n >= 2 => Len(chunks[k]) <= target
               /\ i + n <= Len(units) => Len(chunks[k]) + 1 + Len(units[i + n]) > target
               /\ PackedFrom(units, i + n, chunks, k + 1, target)

\* C16: greedy packing in custom mode: units no longer than the hard limit
\* are joined by single spaces for as long as buffer + separator + unit
\* stays within min(targetChars, hardLimit); the unit that does not fit
\* starts the next chunk.
C16_GreedyPacking ==
    (/\ pc = "returned" /\ input.fn = "chunkByRules"
     /\ \A i \in 1..Len(splitUnits(input.text, input.rules)) :
           Len(splitUnits(input.text, input.rules)[i]) <= input.rules.hardLimit)
       => PackedFrom(splitUnits(input.text, input.rules), 1, output, 1,
                     Min(input.rules.targetChars, input.rules.hardLimit))

\* three paragraphs of which two fit the target together: the first two
\* form one chunk, the third starts the second chunk
C16_Witness ==
    /\ pc = "returned" /\ input.fn = "chunkByRules"
    /\ input.text = <<"a", NL, NL, "a", NL, NL, "a">>
    /\ input.rules.splitOnParagraphs
    /\ input.rules.targetChars = ScaledMax /\ input.rules.hardLimit = ScaledMax + 1
    /\ output = << <<"a", SP, "a">>, <<"a">> >>

\* the first available of the named group `text`, capture group 1 and the
\* whole match of the first match found at index `at` of the line
FirstAvailable(pattern, line, at) ==
    IF at < 0 THEN Null
    ELSE IF GroupText(pattern) # Null THEN trim(GroupText(pattern))
    ELSE IF GroupOne(pattern) # Null THEN trim(GroupOne(pattern))
    ELSE trim(wholeAt(pattern, line, at))

\* what the claim expects of a regex matcher on a non-blank line (a sticky
\* pattern matches at the start of the line only)
ExpectedHeading(regex, line) ==
    FirstAvailable(regex.pattern, line,
                   execAt(regex.pattern, line, 0, HasFlag(regex.flags, "y")))

\* C17: regex heading matcher: a null matcher or a blank line gives null;
\* a compiled /pattern/flags on a non-blank line gives null when the
\* pattern does not match, and else the first available of the named group
\* `text`, capture group 1 and the whole match, trimmed.
C17_RegexHeadingText ==
    pc = "compiled" =>
       \A k \in 1..Len(output.texts) :
          /\ (output.matcher.kind = "null" \/ trim(input.lines[k]) = <<>>)
                => output.texts[k] = Null
          /\ (output.matcher.kind = "regex" /\ trim(input.lines[k]) # <<>>)
                => output.texts[k] = ExpectedHeading(output.matcher, trim(input.lines[k]))

----------------------------------------------------------------------------
(* The synthesis run of the page: App.tsx, synthMutation *)

MaxChunks == 11

OUTPUT_FORMATS ==
    {<<"m", "p", "3">>, <<"a", "a", "c">>, <<"o", "p", "u", "s">>,
     <<"f", "l", "a", "c">>, <<"w", "a", "v">>}

\* results of buildBaseFilename: letters, digits, '.', '_' and '-' only
BaseNames == {<<"t", "t", "s">>, <<"a", "-", "1">>}

DecimalDigits == <<"0", "1", "2", "3", "4", "5", "6", "7", "8", "9">>

\* String(n) of a non-negative integer
RECURSIVE String(_)
String(n) ==
    IF n < 10 THEN <<DecimalDigits[n + 1]>>
    ELSE String(n \div 10) \o <<DecimalDigits[(n % 10) + 1]>>

\* s.padStart(width, fill) with a fill of one character
RECURSIVE padStart(_, _, _)
padStart(s, width, fill) ==
    IF Len(s) >= width THEN s ELSE padStart(<<fill>> \o s, width, fill)

\* const sourceChunks = chunks.length ? chunks : [normalizedText]
sourceChunks(chunks, normalizedText) ==
    IF Len(chunks) # 0 THEN chunks ELSE <<normalizedText>>

\* the name of the file of the chunk at the 0-based position index
chunkFilenameUnpadded(baseName, index, total, format) ==
    IF total = 1 THEN baseName \o <<".">> \o format
    ELSE baseName \o <<"-">> \o String(index + 1)
            \o <<"-", "o", "f", "-">> \o String(total) \o <<".">> \o format

chunkFilename(baseName, index, total, format) ==
    IF total = 1 THEN baseName \o <<".">> \o format
    ELSE baseName \o <<"-">> \o padStart(String(index + 1), Len(String(total)), "0")
            \o <<"-", "o", "f", "-">> \o String(total) \o <<".">> \o format

\* the values of synthStatus and synthError
ProgressStatus(index, total) == [kind |-> "progress", index |-> index + 1, total |-> total]
CompleteStatus(total) == [kind |-> "complete", total |-> total]
KeyMissingError == [kind |-> "error", message |-> "Add your OpenAI API key to start synthesis."]
RequestError == [kind |-> "error", message |-> "request failed"]
NullState == [kind |-> "null"]

\* the chunks memo of a page whose text is not blank: k distinct chunks
ChunkLists == {[k \in 1..n |-> <<"c">> \o String(k)] : n \in 1..MaxChunks}

SynthInit ==
    /\ input \in [fn : {"synthMutation"}, chunks : ChunkLists,
                  normalizedText : {<<"c">>}, apiKey : {<<SP>>, <<"k">>},
                  outputFormat : OUTPUT_FORMATS, baseName : BaseNames]
    /\ synth = [phase |-> "idle", total |-> 0, index |-> 0, awaiting |-> FALSE,
                requests |-> <<>>, downloads |-> <<>>,
                status |-> NullState, error |-> NullState]
    /\ text = <<>> /\ config = defaultChunking /\ result = NoResult
    /\ pc = "page" /\ output = NoOutput /\ CallsIdle

\* the button is enabled: no run is pending, the key and the text are not empty
ButtonEnabled == synth.phase # "pending" /\ input.apiKey # <<>> /\ input.normalizedText # <<>>

\* handleSynthesizeAudio with a key of white space only
RejectBlankKey ==
    /\ ButtonEnabled
    /\ trim(input.apiKey) = <<>>
    /\ synth' = [synth EXCEPT !.status = NullState, !.error = KeyMissingError]
    /\ UNCHANGED <<text, config, result, pc, input, output, log>>

\* handleSynthesizeAudio, mutate(), onMutate and the first lines of mutationFn
StartRun ==
    /\ ButtonEnabled
    /\ trim(input.normalizedText) # <<>>
    /\ trim(input.apiKey) # <<>>
    /\ synth' = [phase |-> "pending",
                 total |-> Len(sourceChunks(input.chunks, input.normalizedText)),
                 index |-> 0, awaiting |-> FALSE,
                 requests |-> <<>>, downloads |-> <<>>,
                 status |-> NullState, error |-> NullState]
    /\ UNCHANGED <<text, config, result, pc, input, output, log>>

\* one iteration of the loop up to the await: setSynthStatus, requestSpeech
IssueRequest ==
    /\ synth.phase = "pending" /\ ~synth.awaiting
    /\ synth.index < synth.total
    /\ synth' = [synth EXCEPT
                   !.status = ProgressStatus(synth.index, synth.total),
                   !.requests = Append(@, [format |-> input.outputFormat,
                        input |-> sourceChunks(input.chunks, input.normalizedText)[synth.index + 1]]),
                   !.awaiting = TRUE]
    /\ UNCHANGED <<text, config, result, pc, input, output, log>>

\* requestSpeech resolves: the rest of the iteration, downloadBlob
RequestReturns ==
    /\ synth.phase = "pending" /\ synth.awaiting
    /\ synth' = [synth EXCEPT
                   !.downloads = Append(@, chunkFilename(input.baseName, synth.index,
                                                         synth.total, input.outputFormat)),
                   !.index = @ + 1,
                   !.awaiting = FALSE]
    /\ UNCHANGED <<text, config, result, pc, input, output, log>>

\* requestSpeech rejects, the loop is left, onError; the mutant goes on with
\* the next chunk
RequestFailsContinues ==
    /\ synth.phase = "pending" /\ synth.awaiting
    /\ synth' = [synth EXCEPT !.index = @ + 1, !.awaiting = FALSE,
                              !.status = NullState, !.error = RequestError]
    /\ UNCHANGED <<text, config, result, pc, input, output, log>>

RequestFails ==
    /\ synth.phase = "pending" /\ synth.awaiting
    /\ synth' = [synth EXCEPT !.phase = "error", !.awaiting = FALSE,
                              !.status = NullState, !.error = RequestError]
    /\ UNCHANGED <<text, config, result, pc, input, output, log>>

\* the loop ended, mutationFn returns total, onSuccess
RunSucceeds ==
    /\ synth.phase = "pending" /\ ~synth.awaiting
    /\ synth.index = synth.total
    /\ synth' = [synth EXCEPT !.phase = "success", !.status = CompleteStatus(synth.total)]
    /\ UNCHANGED <<text, config, result, pc, input, output, log>>

SynthNext ==
    \/ RejectBlankKey
    \/ StartRun
    \/ IssueRequest
    \/ RequestReturns
    \/ RequestFails
    \/ RunSucceeds

SpecSynth == SynthInit /\ [][SynthNext]_vars

----------------------------------------------------------------------------
(* Properties of the synthesis run *)

\* the files of the first n chunks of the run, in chunk order
RunChunks == sourceChunks(input.chunks, input.normalizedText)

\* the requests issued so far are those of the first chunks, in chunk order
RequestsInChunkOrder ==
    /\ Len(synth.requests) <= Len(RunChunks)
    /\ \A i \in 1..Len(synth.requests) : synth.requests[i].input = RunChunks[i]

\* at most one request is out, and every earlier one has its file
OneAtATime ==
    /\ synth.phase = "pending" /\ synth.awaiting
          => Len(synth.requests) = Len(synth.downloads) + 1
    /\ synth.phase = "pending" /\ ~synth.awaiting
          => Len(synth.requests) = Len(synth.downloads)

\* after the request of chunk k failed: k requests, the files of 1..k-1,
\* no status, the error
FailedAtK ==
    synth.phase = "error" =>
       /\ Len(synth.requests) = Len(synth.downloads) + 1
       /\ synth.status = NullState
       /\ synth.error = RequestError

CompleteOnlyAfterAll ==
    synth.status.kind = "complete" =>
       /\ Len(synth.downloads) = Len(RunChunks)
       /\ Len(synth.requests) = Len(RunChunks)

\* a step that issues a request, and a step taken after a failure
RequestStep ==
    Len(synth'.requests) = Len(synth.requests) + 1 =>
       /\ ~synth.awaiting
       /\ Len(synth.downloads) = Len(synth.requests)
       /\ synth'.downloads = synth.downloads

AfterFailureStep ==
    synth.phase = "error" =>
       \/ /\ synth'.requests = synth.requests
          /\ synth'.downloads = synth.downloads
       \/ synth'.phase = "pending" /\ synth'.requests = <<>>

\* files are never taken back within a run (every step but the start of a
\* new run)
DownloadsKept ==
    synth'.phase # "pending" \/ synth.phase = "pending" =>
       /\ Len(synth'.downloads) >= Len(synth.downloads)
       /\ SubSeq(synth'.downloads, 1, Len(synth.downloads)) = synth.downloads

\* C18: within one synthesis run the requests are issued one at a time in
\* chunk order, request i+1 only after request i returned and its file was
\* downloaded; after the request of chunk k failed no further request is
\* issued, the files of chunks 1..k-1 stay downloaded, the status is cleared
\* and the error is shown; the completion status is set only after every
\* chunk was downloaded.
C18_SynthesisOrder ==
    /\ [](RequestsInChunkOrder /\ OneAtATime /\ FailedAtK /\ CompleteOnlyAfterAll)
    /\ [][RequestStep /\ AfterFailureStep /\ DownloadsKept]_vars

\* C18 witness: the request of the third chunk of a longer run failed after
\* the files of the first two chunks were downloaded
C18_Witness ==
    /\ synth.phase = "error"
    /\ Len(synth.downloads) = 2
    /\ synth.total > 3
    /\ synth.error = RequestError

\* the order of UTF-16 code units among the characters of the file names
CodeUnitOrder ==
    <<"-", ".", "0", "1", "2", "3", "4", "5", "6", "7", "8", "9",
      "a", "c", "f", "l", "m", "o", "p", "s", "t", "u", "v", "w">>

CodeUnit(c) == CHOOSE k \in 1..Len(CodeUnitOrder) : CodeUnitOrder[k] = c

RECURSIVE LexLess(_, _)
LexLess(a, b) ==
    IF b = <<>> THEN FALSE
    ELSE IF a = <<>> THEN TRUE
    ELSE IF Head(a) = Head(b) THEN LexLess(Tail(a), Tail(b))
    ELSE CodeUnit(Head(a)) < CodeUnit(Head(b))

IsDigit(c) == \E k \in 1..10 : DecimalDigits[k] = c

DigitValue(c) == (CHOOSE k \in 1..10 : DecimalDigits[k] = c) - 1

RECURSIVE DecimalValue(_)
DecimalValue(s) ==
    IF s = <<>> THEN 0
    ELSE 10 * DecimalValue(SubSeq(s, 1, Len(s) - 1)) + DigitValue(s[Len(s)])

\* the number of decimal digits of n >= 1
DigitCount(n) == CHOOSE w \in 1..4 : n < 10 ^ w /\ (w = 1 \/ n >= 10 ^ (w - 1))

\* name is base-<i in w digits>-of-<total>.<format>
IsNumberedName(name, base, i, total, format) ==
    LET w == DigitCount(total)
        p == SubSeq(name, Len(base) + 2, Len(base) + 1 + w)
        t == SubSeq(name, Len(base) + w + 6, Len(base) + 2 * w + 5)
    IN /\ Len(name) = Len(base) + 2 * w + 6 + Len(format)
       /\ name = base \o <<"-">> \o p \o <<"-", "o", "f", "-">> \o t \o <<".">> \o format
       /\ \A k \in 1..w : IsDigit(p[k]) /\ IsDigit(t[k])
       /\ DecimalValue(p) = i
       /\ DecimalValue(t) = total
       /\ t[1] # "0"

\* C19: in a run of total > 1 chunks the file of chunk i is named
\* base-<i zero-padded to the digit count of total>-of-<total>.<format>, the
\* names of one run are pairwise distinct and their lexicographic order is
\* the chunk order; a run of exactly one chunk downloads base.<format>.
C19_OrderedFilenames ==
    synth.phase # "idle" =>
       /\ synth.total > 1 =>
             \A i \in 1..Len(synth.downloads) :
                IsNumberedName(synth.downloads[i], input.baseName, i,
                               synth.total, input.outputFormat)
       /\ synth.total = 1 =>
             \A i \in 1..Len(synth.downloads) :
                synth.downloads[i] = input.baseName \o <<".">> \o input.outputFormat
       /\ \A i, j \in 1..Len(synth.downloads) :
             i < j => /\ synth.downloads[i] # synth.downloads[j]
                      /\ LexLess(synth.downloads[i], synth.downloads[j])

\* C19 witness: a completed run of ten or more chunks, whose indices are
\* padded to two digits
C19_Witness ==
    /\ synth.phase = "success"
    /\ synth.total >= 10
    /\ Len(synth.downloads) = synth.total
    /\ Len(synth.downloads[1]) = Len(synth.downloads[10])

----------------------------------------------------------------------------
(* Properties of the section loop of the preset chunker *)

\* the sections chunkValeonText works on, and whether it takes the section
\* loop (a heading with text, or more characters than the envelope)
SectionsOf(t, delimiter) == buildSections(buildSegmentsFromText(t, delimiter))

TakesSectionLoop(t, delimiter) ==
    LET segments == buildSegmentsFromText(t, delimiter)
    IN /\ segments # <<>>
       /\ \/ \E i \in 1..Len(segments) :
                segments[i].block = "heading" /\ trim(segments[i].text) # <<>>
          \/ SumSegmentLengths(segments) > VALEON_SECTION_CHAR_LIMIT

\* chunks are the chunks of the sections from the i-th on: for each section
\* its heading, then its joined paragraphs as one chunk exactly when they
\* fit the envelope and maxChars, otherwise the chunks of chunkParagraphs
RECURSIVE SectionsEmitted(_, _, _, _, _)
SectionsEmitted(sections, i, chunks, maxChars, envelope) ==
    IF i > Len(sections) THEN chunks = <<>>
    ELSE LET hasHeading == sections[i].heading # Null /\ sections[i].heading # <<>>
             rest == IF hasHeading /\ chunks # <<>> THEN Tail(chunks) ELSE chunks
             joined == trim(join(sections[i].paragraphs, <<NL, NL>>))
         IN /\ hasHeading => chunks # <<>> /\ chunks[1] = sections[i].heading
            /\ IF joined = <<>>
               THEN SectionsEmitted(sections, i + 1, rest, maxChars, envelope)
               ELSE \E n \in 1..Len(rest) :
                       /\ n = 1 <=> (Len(joined) <= envelope /\ Len(joined) <= maxChars)
                       /\ n = 1 => rest[1] = joined
                       /\ n > 1 => SubSeq(rest, 1, n)
                                      = chunkParagraphs(sections[i].paragraphs, maxChars)
                       /\ SectionsEmitted(sections, i + 1, SubSeq(rest, n + 1, Len(rest)),
                                          maxChars, envelope)

ValeonReturned ==
    /\ pc = "returned" /\ input.fn = "chunkValeonText"
    /\ TakesSectionLoop(input.text, input.delimiter)

\* C20 as stated: a section's joined paragraphs are emitted as one chunk if
\* and only if the joined length is <= 4096 and <= maxChars, for every
\* maxChars; otherwise the paragraphs are packed by chunkParagraphs.
C20_OneChunkIffBothLimits ==
    ValeonReturned =>
       SectionsEmitted(SectionsOf(input.text, input.delimiter), 1, output,
                       input.maxChars, VALEON_SECTION_CHAR_LIMIT)

\* C20 amended: a section's joined paragraphs are emitted as one chunk if and
\* only if the joined length is <= maxChars; otherwise they are packed by
\* chunkParagraphs bounded by maxChars. The fixed 4096 envelope only decides
\* whether that chunk comes from the direct push or from chunkParagraphs.
C20_OneChunkIffWithinMaxChars ==
    ValeonReturned =>
       SectionsEmitted(SectionsOf(input.text, input.delimiter), 1, output,
                       input.maxChars, input.maxChars)

\* C20 witness: maxChars above the envelope and a section of two paragraphs
\* whose joined length is above the envelope and within maxChars, emitted
\* after its heading as one chunk
C20_Witness ==
    /\ ValeonReturned
    /\ input.maxChars > VALEON_SECTION_CHAR_LIMIT
    /\ \E i \in 1..Len(SectionsOf(input.text, input.delimiter)) :
          LET sec == SectionsOf(input.text, input.delimiter)[i]
              joined == trim(join(sec.paragraphs, <<NL, NL>>))
          IN /\ Len(sec.paragraphs) = 2
             /\ Len(joined) > VALEON_SECTION_CHAR_LIMIT
             /\ Len(joined) <= input.maxChars
             /\ \E k \in 1..Len(output) : output[k] = joined

----------------------------------------------------------------------------
(* Properties of the fast path of the preset chunker *)

SegmentsOf(t, delimiter) == buildSegmentsFromText(t, delimiter)

\* the segment texts joined by blank lines
JoinedSegments(segments) ==
    join([k \in 1..Len(segments) |-> segments[k].text], <<NL, NL>>)

\* no heading segment, and the segment lengths sum up to the envelope at most
TakesFastPath(t, delimiter) ==
    /\ SegmentsOf(t, delimiter) # <<>>
    /\ \A i \in 1..Len(SegmentsOf(t, delimiter)) :
          SegmentsOf(t, delimiter)[i].block # "heading"
    /\ SumSegmentLengths(SegmentsOf(t, delimiter)) <= VALEON_SECTION_CHAR_LIMIT

\* s occurs in t as a run of consecutive characters
IsInfix(s, t) ==
    \E a \in 0..(Len(t) - Len(s)) : SubSeq(t, a + 1, a + Len(s)) = s

\* chunks split the transcript at sentence ends: every chunk is non-empty
\* and within the limit, the chunks hold the non-whitespace characters of
\* the transcript once and in order, and a sentence that fits the limit is
\* whole in one chunk
SentenceAwareSplit(chunks, transcript, limit) ==
    /\ \A k \in 1..Len(chunks) : chunks[k] # <<>> /\ Len(chunks[k]) <= limit
    /\ Strip(Flatten(chunks)) = Strip(transcript)
    /\ \A i \in 1..Len(splitSentences(transcript)) :
          Len(splitSentences(transcript)[i]) <= limit
             => \E k \in 1..Len(chunks) : IsInfix(splitSentences(transcript)[i], chunks[k])

FastPathReturned ==
    /\ pc = "returned" /\ input.fn = "chunkValeonText"
    /\ TakesFastPath(input.text, input.delimiter)

\* C21: with no heading segment and segment lengths summing up to 4096 at
\* most, chunkValeonText returns exactly one chunk, the segment texts joined
\* by blank lines, whenever that transcript is within hardLimit; when the
\* transcript is longer, the result is its sentence-aware split and every
\* chunk is within hardLimit.
C21_PresetFastPath ==
    FastPathReturned =>
       LET transcript == JoinedSegments(SegmentsOf(input.text, input.delimiter))
       IN /\ Len(transcript) <= input.maxChars => output = <<transcript>>
          /\ Len(transcript) > input.maxChars
                => SentenceAwareSplit(output, transcript, input.maxChars)

\* C21 witness: two segments whose lengths sum up to the envelope and whose
\* transcript, separators included, is longer than hardLimit
C21_Witness ==
    /\ FastPathReturned
    /\ Len(SegmentsOf(input.text, input.delimiter)) = 2
    /\ SumSegmentLengths(SegmentsOf(input.text, input.delimiter)) = VALEON_SECTION_CHAR_LIMIT
    /\ input.maxChars = VALEON_SECTION_CHAR_LIMIT
    /\ Len(JoinedSegments(SegmentsOf(input.text, input.delimiter))) > input.maxChars
    /\ Len(output) >= 2

----------------------------------------------------------------------------
(* Properties of the paragraph packer *)

\* chunks from the k-th on are the chunks of the paragraphs from the i-th
\* on: the pieces of an oversized paragraph, each within the limit, or a
\* run of fitting paragraphs joined by blank lines that ends only before an
\* oversized paragraph or before one that no longer fits with its separator
RECURSIVE PackedParagraphs(_, _, _, _, _)
PackedParagraphs(paragraphs, i, chunks, k, maxChars) ==
    IF i > Len(paragraphs) THEN k = Len(chunks) + 1
    ELSE IF Len(paragraphs[i]) > maxChars
    THEN \E m \in 1..(Len(chunks) - k + 1) :
            /\ \A j \in k..(k + m - 1) : chunks[j] # <<>> /\ Len(chunks[j]) <= maxChars
            /\ Strip(Flatten(SubSeq(chunks, k, k + m - 1))) = Strip(paragraphs[i])
            /\ PackedParagraphs(paragraphs, i + 1, chunks, k + m, maxChars)
    ELSE /\ k <= Len(chunks)
         /\ \E n \in 1..(Len(paragraphs) - i + 1) :
               /\ \A j \in i..(i + n - 1) : Len(paragraphs[j]) <= maxChars
               /\ chunks[k] = join(SubSeq(paragraphs, i, i + n - 1), <<NL, NL>>)
               /\ Len(chunks[k]) <= maxChars
               /\ i + n <= Len(paragraphs) =>
                     \/ Len(paragraphs[i + n]) > maxChars
                     \/ Len(chunks[k]) + 2 + Len(paragraphs[i + n]) > maxChars
               /\ PackedParagraphs(paragraphs, i + n, chunks, k + 1, maxChars)

\* C22: for every paragraph list and maxChars >= 1, chunkParagraphs keeps
\* paragraph order, puts every paragraph that fits whole into exactly one
\* chunk, joins the paragraphs of a chunk with a blank line, ends a chunk
\* only before a paragraph with buffer + 2 + paragraph > maxChars or before
\* an oversized paragraph, and returns only chunks within maxChars.
C22_ParagraphPacker ==
    (pc = "returned" /\ input.fn = "chunkParagraphs" /\ input.maxChars >= 1) =>
       /\ PackedParagraphs(input.paragraphs, 1, output, 1, input.maxChars)
       /\ \A k \in 1..Len(output) : Len(output[k]) <= input.maxChars

\* C22 witness: three paragraphs that fit, the first two packed into one
\* chunk with a blank line between them, the third left for the next chunk
\* because the separator no longer fits
C22_Witness ==
    /\ pc = "returned" /\ input.fn = "chunkParagraphs"
    /\ input.paragraphs = << <<"a">>, <<"a">>, <<"a">> >>
    /\ input.maxChars = ScaledMax + 1
    /\ output = << <<"a", NL, NL, "a">>, <<"a">> >>

----------------------------------------------------------------------------
(* Properties of the Markdown token rule *)

\* the matcher is the single token of n '#' characters
IsHashMatcher(matcher) ==
    /\ matcher.kind = "tokens"
    /\ Len(matcher.tokens) = 1
    /\ IsHashToken(matcher.tokens[1])
    /\ Len(matcher.tokens[1]) <= HeadingMaxLevel

\* what follows the leading '#' characters of a line
AfterHashes(line) == SubSeq(line, LeadingHashes(line) + 1, Len(line))

\* the line is a heading of level n or deeper: n to 6 '#', white space, text
IsMarkdownHeading(line, n) ==
    /\ LeadingHashes(line) >= n
    /\ LeadingHashes(line) <= 6
    /\ AfterHashes(line) # <<>>
    /\ IsWs(Head(AfterHashes(line)))
    /\ trim(AfterHashes(line)) # <<>>

\* C23: a token of n '#' characters, 1 <= n <= 6, makes a line a heading
\* exactly when the line starts with k '#', n <= k <= 6, followed by white
\* space and non-empty text, and the heading text is that text trimmed;
\* every other line is body text.
C23_MarkdownTokenRule ==
    (pc = "compiled" /\ IsHashMatcher(output.matcher)) =>
       \A k \in 1..Len(output.texts) :
          IF IsMarkdownHeading(input.lines[k], Len(output.matcher.tokens[1]))
          THEN output.texts[k] = trim(AfterHashes(input.lines[k]))
          ELSE output.texts[k] = Null

\* C23 witness: the token "##" on a line of three '#', two blanks and a
\* text made it a heading with the text alone
C23_Witness ==
    /\ pc = "compiled" /\ IsHashMatcher(output.matcher)
    /\ Len(output.matcher.tokens[1]) = 2
    /\ input.lines = << <<"#", "#", "#", SP, SP, "a", SP, "#", "a">> >>
    /\ output.texts = << <<"a", SP, "#", "a">> >>

----------------------------------------------------------------------------
(* Properties of the sentence splitter *)

\* the positions of the text where a sentence ends: '.', '!' or '?' with
\* white space right after it
SentenceEnds(t) == {i \in 1..(Len(t) - 1) : t[i] \in {".", "!", "?"} /\ IsWs(t[i + 1])}

\* what is left of the text after its last sentence end
AfterLastEnd(t) ==
    IF SentenceEnds(t) = {} THEN t
    ELSE SubSeq(t, (CHOOSE i \in SentenceEnds(t) : \A j \in SentenceEnds(t) : j <= i) + 1,
                Len(t))

\* C24: splitSentences cuts the text after each '.', '!' or '?' that is
\* followed by white space and keeps the punctuation at the end of the
\* preceding sentence; every sentence is non-empty and trimmed, every
\* sentence but possibly the last ends with '.', '!' or '?', and the
\* sentences in order hold every non-whitespace character of the text once.
C24_SentenceSplitter ==
    (pc = "returned" /\ input.fn = "splitSentences") =>
       /\ Len(output) = Cardinality(SentenceEnds(input.text))
                          + (IF Strip(AfterLastEnd(input.text)) # <<>> THEN 1 ELSE 0)
       /\ \A k \in 1..Len(output) :
             /\ output[k] # <<>>
             /\ trim(output[k]) = output[k]
             /\ SentenceEnds(output[k]) = {}
             /\ k <= Cardinality(SentenceEnds(input.text))
                   => output[k][Len(output[k])] \in {".", "!", "?"}
       /\ Strip(Flatten(output)) = Strip(input.text)

\* C24 witness: a text of "...", "!?" and a last sentence without
\* punctuation is cut after the punctuation that white space follows
C24_Witness ==
    /\ pc = "returned" /\ input.fn = "splitSentences"
    /\ input.text = <<"a", ".", ".", ".", SP, "a", "!", "?", NL, "a">>
    /\ output = << <<"a", ".", ".", ".">>, <<"a", "!", "?">>, <<"a">> >>

----------------------------------------------------------------------------
(* Properties of the segment builder *)

\* the lines from..to joined by single spaces, each trimmed
RunText(lines, from, to) ==
    join([k \in 1..(to - from + 1) |-> trim(lines[from + k - 1])], <<SP>>)

IsBodyLine(lines, classes, i) == trim(lines[i]) # <<>> /\ classes[i] = Null

\* segments from the k-th on are the segments of the lines from the i-th
\* on: nothing for a blank line, one heading segment for a heading line,
\* one body segment for a run of body lines that ends at the end of the
\* text, before a blank line or before a heading line
RECURSIVE SegmentsCover(_, _, _, _, _)
SegmentsCover(lines, classes, i, segments, k) ==
    IF i > Len(lines) THEN k = Len(segments) + 1
    ELSE IF trim(lines[i]) = <<>> THEN SegmentsCover(lines, classes, i + 1, segments, k)
    ELSE IF classes[i] # Null
    THEN /\ k <= Len(segments)
         /\ segments[k] = [block |-> "heading", text |-> classes[i]]
         /\ SegmentsCover(lines, classes, i + 1, segments, k + 1)
    ELSE /\ k <= Len(segments)
         /\ \E n \in 1..(Len(lines) - i + 1) :
               /\ \A j \in i..(i + n - 1) : IsBodyLine(lines, classes, j)
               /\ i + n <= Len(lines) => ~ IsBodyLine(lines, classes, i + n)
               /\ segments[k] = [block |-> "body", text |-> RunText(lines, i, i + n - 1)]
               /\ SegmentsCover(lines, classes, i + n, segments, k + 1)

SegmentsReturned ==
    pc = "returned" /\ input.fn = "buildSegmentsFromText" /\ output.kind = "ok"

\* C25: buildSegmentsFromText assigns every non-blank line of a normalized
\* text, in order, to one heading segment (its heading text) or to exactly
\* one body segment; a body segment is a maximal run of consecutive
\* non-blank non-heading lines joined by single spaces and spans no blank
\* line and no heading line; a non-blank text gives at least one segment.
C25_SegmentBuilder ==
    SegmentsReturned =>
       /\ SegmentsCover(split(input.text, NL),
                        ClassifyLines(split(input.text, NL), 1,
                                      parseHeadingMatcher(input.delimiter).matcher),
                        1, output.segments, 1)
       /\ trim(input.text) # <<>> => output.segments # <<>>

\* C25 witness: two body lines, a blank line, a heading line and two more
\* body lines give a body segment, a heading segment and a body segment
C25_Witness ==
    /\ SegmentsReturned
    /\ input.text = <<"a", NL, "a", NL, NL, "#", SP, "a", NL, "a", NL, "a", ".">>
    /\ output.segments = << [block |-> "body", text |-> <<"a", SP, "a">>],
                            [block |-> "heading", text |-> <<"a">>],
                            [block |-> "body", text |-> <<"a", SP, "a", ".">>] >>

----------------------------------------------------------------------------
(* hydrateConfig applied to a loaded value *)

\* JSON values of every type for the fields of a loaded chunking record
LoadedNumbers == JsonNumbers \cup {JsonString(<<"3">>)}
LoadedFlags == JsonFlags \cup {JsonNumber(1)}
LoadedStrings == {JsonOther, JsonNumber(0), JsonString(DelimEmpty)}

LoadedValues ==
    {[isObject |-> FALSE, chunking |-> EmptyRecord],
     [isObject |-> TRUE, chunking |-> [EmptyRecord EXCEPT !.isObject = FALSE]]}
    \cup
    {[isObject |-> TRUE,
      chunking |-> [isObject |-> TRUE, mode |-> m, targetChars |-> t, hardLimit |-> h,
                    splitOnParagraphs |-> p, splitOnLines |-> f, splitOnSentences |-> f,
                    headingDelimiter |-> d]] :
       m \in JsonModes, t \in LoadedNumbers, h \in LoadedNumbers,
       p \in LoadedFlags, f \in LoadedFlags, d \in LoadedStrings}

\* stored configs: the default, and one the numeric inputs left out of range
StoredBefore ==
    {defaultChunking,
     [defaultChunking EXCEPT !.mode = "custom", !.targetChars = ScaledMax + 1,
                             !.hardLimit = 0]}

HydrateInit ==
    /\ input \in {[fn |-> "hydrateConfig", value |-> v] : v \in LoadedValues}
    /\ config \in StoredBefore
    /\ pc = "call"
    /\ text = <<>> /\ result = NoResult /\ output = NoOutput
    /\ CallsIdle /\ SynthIdle

\* hydrateConfig: (config) => set({ config: coerceConfig(config) })
CallHydrateConfig ==
    /\ pc = "call" /\ input.fn = "hydrateConfig"
    /\ config' = coerceConfig(input.value)
    /\ pc' = "hydrated"
    /\ UNCHANGED <<text, result, input, output, log, synth>>

HydrateNext == CallHydrateConfig

SpecHydrate == HydrateInit /\ [][HydrateNext]_vars

\* the loaded chunking record, every field undefined when the value or its
\* chunking field is not an object
LoadedRecord(value) ==
    IF value.isObject /\ value.chunking.isObject THEN value.chunking ELSE EmptyRecord

\* C26: for every value passed to hydrateConfig the stored chunking config
\* has 200 <= targetChars <= hardLimit <= 4096 (scaled), a mode of the
\* enumeration, boolean split flags and a string headingDelimiter; fields
\* missing or of the wrong type take the default value.
C26_ClampingOnLoad ==
    pc = "hydrated" =>
       LET loaded == LoadedRecord(input.value)
       IN /\ ScaledMin <= config.targetChars
          /\ config.targetChars <= config.hardLimit
          /\ config.hardLimit <= ScaledMax
          /\ config.mode \in {"valeon", "custom"}
          /\ config.splitOnParagraphs \in BOOLEAN
          /\ config.splitOnLines \in BOOLEAN
          /\ config.splitOnSentences \in BOOLEAN
          /\ config.headingDelimiter \in Seq({"#"})
          /\ loaded.targetChars.type # "number"
                => config.targetChars = defaultChunking.targetChars
          /\ loaded.hardLimit.type # "number"
                => config.hardLimit = defaultChunking.hardLimit
          /\ loaded.mode.type # "string" => config.mode = defaultChunking.mode
          /\ loaded.splitOnParagraphs.type # "boolean"
                => config.splitOnParagraphs = defaultChunking.splitOnParagraphs
          /\ loaded.splitOnLines.type # "boolean"
                => config.splitOnLines = defaultChunking.splitOnLines
          /\ loaded.splitOnSentences.type # "boolean"
                => config.splitOnSentences = defaultChunking.splitOnSentences
          /\ loaded.headingDelimiter.type # "string"
                => config.headingDelimiter = defaultChunking.headingDelimiter

\* C26 witness: a loaded record with targetChars above the range, hardLimit
\* below targetChars and a flag of the wrong type replaced an out-of-range
\* stored config
C26_Witness ==
    /\ pc = "hydrated"
    /\ input.value.isObject /\ input.value.chunking.isObject
    /\ input.value.chunking.targetChars = JsonNumber(ScaledMax + 1)
    /\ input.value.chunking.hardLimit = JsonNumber(ScaledMin)
    /\ input.value.chunking.splitOnParagraphs = JsonNumber(1)
    /\ config.targetChars = ScaledMax /\ config.hardLimit = ScaledMax

----------------------------------------------------------------------------
(* chunkText on non-blank texts *)

\* C27: for every text with a non-whitespace character and every config
\* with hardLimit >= 1, in both modes, with any split flags and any heading
\* delimiter, chunkText returns at least one chunk.
C27_NonBlankTextGivesChunks ==
    (pc \in {"chunked", "returned"} /\ trim(text) # <<>> /\ config.hardLimit >= 1)
       => result.kind = "ok" /\ result.chunks # <<>>

----------------------------------------------------------------------------
(* Clicks on "Synthesize audio" between the renders of the page *)

\* handleSynthesizeAudio and the disabled attribute of the button belong to
\* a render of App: they read the synthMutation.isPending, the config and
\* the normalizedText of that render.  A mutation started by mutate() is
\* pending at once, the page shows it with its next render.  Each run is
\* one execution of mutationFn; what it requests and downloads is the
\* subject of SpecSynth, here a run counts its requests.

MaxRuns == 3
MaxRequests == 2
MaxClicks == 4

PendingRuns(runs) == {r \in 1..Len(runs) : runs[r].status = "pending"}

\* synthMutation.isPending as the observer holds it: the mutation started
\* last is pending
IsPendingNow(runs) == runs # <<>> /\ runs[Len(runs)].status = "pending"

ClicksInit ==
    /\ input \in [fn : {"handleSynthesizeAudio"},
                  normalizedText : {<<>>, <<"c">>},
                  apiKey : {<<>>, <<SP>>, <<"k">>}]
    /\ synth = [runs |-> <<>>, seenPending |-> FALSE, clicks |-> 0, error |-> NullState]
    /\ text = <<>> /\ config = defaultChunking /\ result = NoResult
    /\ pc = "page" /\ output = NoOutput /\ CallsIdle

\* the button as the last render left it
ButtonRendered ==
    ~synth.seenPending /\ input.apiKey # <<>> /\ input.normalizedText # <<>>

\* handleSynthesizeAudio of the last render, up to synthMutation.mutate()
ClickSynthesize ==
    /\ ButtonRendered
    /\ synth.clicks < MaxClicks /\ Len(synth.runs) < MaxRuns
    /\ synth' =
         IF trim(input.normalizedText) = <<>>
         THEN [synth EXCEPT !.clicks = @ + 1,
                            !.error = [kind |-> "error",
                                       message |-> "Add text before synthesizing audio."]]
         ELSE IF trim(input.apiKey) = <<>>
         THEN [synth EXCEPT !.clicks = @ + 1, !.error = KeyMissingError]
         ELSE IF synth.seenPending
         THEN [synth EXCEPT !.clicks = @ + 1, !.error = NullState]
         ELSE [synth EXCEPT !.clicks = @ + 1, !.error = NullState,
                            !.runs = Append(@, [status |-> "pending", requests |-> 0])]
    /\ UNCHANGED <<text, config, result, pc, input, output, log>>

\* App renders again and reads synthMutation.isPending
RenderPage ==
    /\ synth.seenPending # IsPendingNow(synth.runs)
    /\ synth' = [synth EXCEPT !.seenPending = IsPendingNow(synth.runs)]
    /\ UNCHANGED <<text, config, result, pc, input, output, log>>

\* a run in flight issues its next request
RunIssuesRequest(r) ==
    /\ synth.runs[r].status = "pending"
    /\ synth.runs[r].requests < MaxRequests
    /\ synth' = [synth EXCEPT !.runs[r].requests = @ + 1]
    /\ UNCHANGED <<text, config, result, pc, input, output, log>>

\* a run in flight ends: its last request returned, or a request failed
RunSettles(r) ==
    /\ synth.runs[r].status = "pending"
    /\ synth.runs[r].requests >= 1
    /\ synth' = [synth EXCEPT !.runs[r].status = "settled"]
    /\ UNCHANGED <<text, config, result, pc, input, output, log>>

ClicksNext ==
    \/ ClickSynthesize
    \/ RenderPage
    \/ \E r \in 1..Len(synth.runs) : RunIssuesRequest(r)
    \/ \E r \in 1..Len(synth.runs) : RunSettles(r)

SpecClicks == ClicksInit /\ [][ClicksNext]_vars

\* a step that starts a run, a step that is a click
StartsRun == Len(synth'.runs) = Len(synth.runs) + 1
IsClick == synth'.clicks = synth.clicks + 1

\* C28: at most one synthesis run is in flight: a click starts a run only
\* when the normalized text is not blank, the trimmed API key is not empty
\* and no run is pending; a click that starts no run issues no request; a
\* click made while a run is pending starts no second run.
C28_AtMostOneRunInFlight ==
    /\ [](Cardinality(PendingRuns(synth.runs)) <= 1)
    /\ [][StartsRun => /\ trim(input.normalizedText) # <<>>
                       /\ trim(input.apiKey) # <<>>
                       /\ PendingRuns(synth.runs) = {}]_vars
    /\ [][(IsClick /\ ~StartsRun) => synth'.runs = synth.runs]_vars

====
